---- MODULE Spec2Model ----
(***************************************************************************)
(* A model of mariadb_exporter.py: one run of MariaDBExporter.export,      *)
(* stage by stage, against a database whose queries may fail and whose     *)
(* rows may change while a table is being paged.                           *)
(*                                                                         *)
(* Text is a sequence of one-character strings, a file is a sequence of    *)
(* lines (one record per f.write of the source, all of one shape).         *)
(***************************************************************************)
EXTENDS Integers, Sequences, FiniteSets, TLC

\* ------------------------------------------------------------------ bounds
\* Most rows table t1 holds when the run starts.
MaxRows == 3
\* Largest --batch-size tried.
MaxBatch == 2
\* Most events the environment injects into one run: a failure (failed query,
\* lost connection, empty result, failed open) or a concurrent change of the
\* rows of the table being paged.
MaxEvents == 1

\* ------------------------------------------------------------------- text
Min(a, b) == IF a < b THEN a ELSE b

\* Python's `sub in s` on strings.
Contains(sub, s) ==
    \E i \in 0..(Len(s) - Len(sub)) : SubSeq(s, i + 1, i + Len(sub)) = sub

GENERATED == <<"G","E","N","E","R","A","T","E","D">>

\* str.replace(old, new) for a one-character `old`.
RECURSIVE Replace(_, _, _)
Replace(s, old, new) ==
    IF s = <<>> THEN <<>>
    ELSE (IF Head(s) = old THEN new ELSE <<Head(s)>>) \o Replace(Tail(s), old, new)

Digit(d) == <<"0","1","2","3","4","5","6","7","8","9">>[d + 1]

HexDigit(d) ==
    <<"0","1","2","3","4","5","6","7","8","9","a","b","c","d","e","f">>[d + 1]

\* str(n) of a Python int.
RECURSIVE DecNat(_)
DecNat(n) == IF n < 10 THEN <<Digit(n)>> ELSE DecNat(n \div 10) \o <<Digit(n % 10)>>

DecStr(n) == IF n < 0 THEN <<"-">> \o DecNat(0 - n) ELSE DecNat(n)

\* A hex() that drops the leading zero of a byte.
RECURSIVE HexStrUnpadded(_)
HexStrUnpadded(b) ==
    IF b = <<>> THEN <<>>
    ELSE (IF Head(b) < 16 THEN <<HexDigit(Head(b))>>
          ELSE <<HexDigit(Head(b) \div 16), HexDigit(Head(b) % 16)>>)
         \o HexStrUnpadded(Tail(b))

\* bytes.hex(): two lowercase digits per byte.
RECURSIVE HexStr(_)
HexStr(b) ==
    IF b = <<>> THEN <<>>
    ELSE <<HexDigit(Head(b) \div 16), HexDigit(Head(b) % 16)>> \o HexStr(Tail(b))

\* ----------------------------------------------------------- raw values
\* escape_value with the backslash escaped last instead of first.
escape_value_backslash_last(value) ==
    CASE value.tag = "null" -> <<"N","U","L","L">>
      [] value.tag = "int" -> DecStr(value.n)
      [] value.tag = "bytes" -> <<"0","x">> \o HexStr(value.b)
      [] OTHER ->
           LET s1 == Replace(value.s, "'", <<"\\","'">>)
               s2 == Replace(s1, "\"", <<"\\","\"">>)
               s3 == Replace(s2, "\n", <<"\\","n">>)
               s4 == Replace(s3, "\r", <<"\\","r">>)
               s5 == Replace(s4, "\t", <<"\\","t">>)
               s6 == Replace(s5, "\\", <<"\\","\\">>)
           IN  <<"'">> \o s6 \o <<"'">>

\* escape_value with the single quote escaped before the backslash.
escape_value_quote_first(value) ==
    CASE value.tag = "null" -> <<"N","U","L","L">>
      [] value.tag = "int" -> DecStr(value.n)
      [] value.tag = "bytes" -> <<"0","x">> \o HexStr(value.b)
      [] OTHER ->
           LET s1 == Replace(value.s, "'", <<"\\","'">>)
               s2 == Replace(s1, "\\", <<"\\","\\">>)
               s3 == Replace(s2, "\"", <<"\\","\"">>)
               s4 == Replace(s3, "\n", <<"\\","n">>)
               s5 == Replace(s4, "\r", <<"\\","r">>)
               s6 == Replace(s5, "\t", <<"\\","t">>)
           IN  <<"'">> \o s6 \o <<"'">>

\* A value as the connector returns it: None, an int (n), bytes (b), or
\* anything else (s is its str(value)).
NullValue == [tag |-> "null", n |-> 0, s |-> <<>>, b |-> <<>>]
IntValue(n) == [tag |-> "int", n |-> n, s |-> <<>>, b |-> <<>>]
BytesValue(b) == [tag |-> "bytes", n |-> 0, s |-> <<>>, b |-> b]
TextValue(s) == [tag |-> "text", n |-> 0, s |-> s, b |-> <<>>]

escape_value(value) ==
    CASE value.tag = "null" -> <<"N","U","L","L">>
      [] value.tag = "int" -> DecStr(value.n)
      [] value.tag = "bytes" -> <<"0","x">> \o HexStr(value.b)
      [] OTHER ->
           LET s1 == Replace(value.s, "\\", <<"\\","\\">>)
               s2 == Replace(s1, "'", <<"\\","'">>)
               s3 == Replace(s2, "\"", <<"\\","\"">>)
               s4 == Replace(s3, "\n", <<"\\","n">>)
               s5 == Replace(s4, "\r", <<"\\","r">>)
               s6 == Replace(s5, "\t", <<"\\","t">>)
           IN  <<"'">> \o s6 \o <<"'">>

\* ------------------------------------------------------------ the database
\* What the catalog lists, in listing order.
DbTables == <<"t1", "t2">>
DbViews == <<"v1", "v2">>
DbProcedures == <<"p1", "p2">>
DbFunctions == <<"f1">>
DbTriggers == <<"g1">>

\* SHOW COLUMNS FROM t: (Field, Extra) per column, in ordinal order.
ShowColumns(t) ==
    IF t = "t1"
    THEN << [Field |-> "id",
             Extra |-> <<"a","u","t","o","_","i","n","c","r","e","m","e","n","t">>],
            [Field |-> "name", Extra |-> <<>>],
            [Field |-> "full_name",
             Extra |-> <<"V","I","R","T","U","A","L"," ">> \o GENERATED] >>
    ELSE << [Field |-> "k", Extra |-> <<>>],
            [Field |-> "total",
             Extra |-> <<"S","T","O","R","E","D"," ">> \o GENERATED],
            [Field |-> "payload", Extra |-> <<>>] >>

\* The text stored in t1.name of row `id`.
NameOf(id) ==
    CASE id = 1 -> <<"O","'","B">>
      [] id = 2 -> <<"a","\\","n">>
      [] id = 3 -> <<"x","\n","\"">>
      [] OTHER -> <<"z","\t">>

\* The value of column `col` in the row `id` of table t.
Cell(t, id, col) ==
    CASE col = "id" -> IntValue(id)
      [] col = "name" -> TextValue(NameOf(id))
      [] col = "full_name" -> TextValue(NameOf(id) \o <<"!">>)
      [] col = "k" -> IntValue(0 - (10 * id))
      [] col = "total" -> IntValue(20 * id)
      [] OTHER -> IF id % 2 = 1 THEN BytesValue(<<222, 173>>) ELSE NullValue

\* A page query that ignores its LIMIT.
SelectPageUnlimited(t_rows, limit, offset) == SubSeq(t_rows, offset + 1, Len(t_rows))

\* SELECT <cols> FROM t LIMIT limit OFFSET offset over the rows t holds now,
\* in the engine's scan order: the row ids of the page.
SelectPage(t_rows, limit, offset) ==
    SubSeq(t_rows, offset + 1, Min(offset + limit, Len(t_rows)))

\* One fetched row: the values of the projected columns, in projection order.
SelectRow(t, id, cols) == [i \in 1..Len(cols) |-> Cell(t, id, cols[i])]

\* The rows of every table when the run starts.
InitialRows(n) == [i \in 1..n |-> i]

\* ------------------------------------------------------------------- files
Sections == {"structure", "data", "views", "routines", "triggers"}

\* One f.write of the source. k says which write, kind and name the object
\* it is about, text the create statement fetched, cols and rows the column
\* list and the value tuples of an INSERT.
Line(k, kind, name) ==
    [k |-> k, kind |-> kind, name |-> name, text |-> <<>>, cols |-> <<>>,
     rows |-> <<>>]

\* SHOW CREATE <KIND> name: the canonical create text, as tokens. A table's
\* text carries the transient AUTO_INCREMENT=<n> clause.
ShowCreate(kind, name) ==
    IF kind = "TABLE"
    THEN <<"CREATE TABLE", name, "(...) ENGINE=InnoDB", " AUTO_INCREMENT=", "7",
           " DEFAULT CHARSET=utf8mb4">>
    ELSE <<"CREATE", kind, name, "..." >>

\* re.sub(r' AUTO_INCREMENT=\d+', '', create_table_sql)
RECURSIVE StripAutoIncrement(_)
StripAutoIncrement(text) ==
    IF text = <<>> THEN <<>>
    ELSE IF Head(text) = " AUTO_INCREMENT=" /\ Len(text) >= 2
         THEN StripAutoIncrement(Tail(Tail(text)))
         ELSE <<Head(text)>> \o StripAutoIncrement(Tail(text))

CreateLine(kind, name, text) == [Line("create", kind, name) EXCEPT !.text = text]

\* INSERT INTO `table` (columns) VALUES (tuple), (tuple), ...;
InsertLine(table, cols, rows) ==
    [Line("insert", "TABLE", table) EXCEPT !.cols = cols, !.rows = rows]

\* The DATA SECTION separator of full mode: two newlines, a rule, the title,
\* a rule.
Separator ==
    << Line("blank_lines", "", ""), Line("rule", "", ""),
       Line("data_section", "", ""), Line("rule", "", "") >>

\* The three header comments of a file: title, -- Database:, -- Generated:.
Header(section) ==
    << Line("title", section, ""), Line("database", "", ""),
       Line("generated", "", "") >>

\* ------------------------------------------------------------------- state
VARIABLES
    pc,                 \* where the run is
    export_method,      \* --export-method
    batch_size,         \* --batch-size
    include_views,      \* not --no-views
    include_routines,   \* not --no-routines
    include_triggers,   \* not --no-triggers
    connection,         \* self.connection: none, open, dead (is_connected()
                        \* is False), closed
    close_calls,        \* how often connection.close() was called
    raised,             \* the exception leaving export: none, SystemExit, OSError
    exit_status,        \* the process's exit status, -1 while it runs
    db_rows,            \* the row ids each table holds now, in scan order
    db_changes,         \* concurrent row changes so far
    faults,             \* failures injected so far
    failed,             \* the failures that happened: <<stage, what, object, how>>
    files,              \* the content of each artifact
    created,            \* the artifacts that exist
    queries,            \* every query sent, in order
    stages,             \* the stages entered, in order
    tables,             \* the local listings of the running stage
    views,
    procedures,
    functions,
    triggers,
    idx,                \* position of the for loop in its listing
    total_rows,         \* SELECT COUNT(*) of the current table
    columns,            \* the filtered column list of the current table
    offset,             \* the pagination offset
    value,              \* escape_value: the value passed in
    encoded,            \* escape_value: the literal returned
    args_files,         \* email sender: --files, <<>> when not given
    fs,                 \* email sender: the paths that exist
    fs_changes,         \* files removed while the sender ran
    backup_files,       \* email sender: main's backup_files
    valid_files,        \* email sender: main's valid_files
    attach_idx,         \* send_backup: position of its for loop
    attached,           \* send_backup: the paths attached, in order
    warnings,           \* the paths a "not found" warning was printed for
    sent,               \* send_backup: not_tried, ok, failed
    platform,           \* merge_full_export: platform.system()
    merge_input         \* merge_full_export: the two files as they were given

cfgVars == <<export_method, batch_size, include_views, include_routines,
             include_triggers>>
connVars == <<connection, close_calls>>
dbVars == <<db_rows, db_changes>>
outVars == <<files, created>>
listVars == <<tables, views, procedures, functions, triggers>>
loopVars == <<idx, total_rows, columns, offset>>
escVars == <<value, encoded>>
mailVars == <<args_files, fs, fs_changes, backup_files, valid_files, attach_idx,
              attached, warnings, sent>>
mergeVars == <<platform, merge_input>>
\* What the exporter never touches.
sideVars == <<escVars, mailVars, mergeVars>>
vars == <<pc, cfgVars, connVars, raised, exit_status, dbVars, faults, failed,
          outVars, queries, stages, listVars, loopVars,
          sideVars>>

Modes == {"structure", "data", "full"}

\* A query sent to the server.
Query(op, obj) ==
    [op |-> op, obj |-> obj, cols |-> <<>>, limit |-> 0, offset |-> 0, n |-> 0]

\* escape_value is not being called on its own.
EscapeIdle == value = NullValue /\ encoded = <<>>

\* The email sender is not running.
MailIdle ==
    /\ args_files = <<>> /\ fs = {} /\ fs_changes = 0
    /\ backup_files = <<>> /\ valid_files = <<>> /\ attach_idx = 0
    /\ attached = <<>> /\ warnings = <<>> /\ sent = "not_tried"

\* merge_full_export is not being called on its own.
MergeIdle == platform = "Linux" /\ merge_input = [structure |-> <<>>, data |-> <<>>]

\* What --batch-size can be given as: any integer, here from -1 up.
BatchSizes == -1..MaxBatch

Init ==
    /\ pc = "main"
    /\ export_method \in Modes
    /\ batch_size \in BatchSizes
    /\ include_views \in BOOLEAN
    /\ include_routines \in BOOLEAN
    /\ include_triggers \in BOOLEAN
    /\ connection = "none"
    /\ close_calls = 0
    /\ raised = "none"
    /\ exit_status = -1
    /\ \E n \in 0..MaxRows : db_rows = [t \in {"t1", "t2"} |->
                                          IF t = "t1" THEN InitialRows(n)
                                          ELSE InitialRows(1)]
    /\ db_changes = 0
    /\ faults = 0
    /\ failed = {}
    /\ files = [s \in Sections |-> <<>>]
    /\ created = {}
    /\ queries = <<>>
    /\ stages = <<>>
    /\ tables = <<>> /\ views = <<>> /\ procedures = <<>>
    /\ functions = <<>> /\ triggers = <<>>
    /\ idx = 0 /\ total_rows = 0 /\ columns = <<>> /\ offset = 0
    /\ EscapeIdle
    /\ MailIdle
    /\ MergeIdle

\* ------------------------------------------------------ failure injection
\* How a query can end: ok, err (the server refuses it), lost (the connection
\* breaks: every later query fails and is_connected() is False), dead (the
\* connection was already lost).
Events == faults + db_changes

QueryOutcomes ==
    IF connection = "dead" THEN {"dead"}
    ELSE IF Events < MaxEvents THEN {"ok", "err", "lost"} ELSE {"ok"}

\* A SHOW CREATE can also come back with no row.
FetchOutcomes ==
    QueryOutcomes \cup
        (IF connection = "open" /\ Events < MaxEvents THEN {"empty"} ELSE {})

\* open(output_file, ...) after `used` more faults: ok or OSError.
OpenOutcomes(used) ==
    IF Events + used < MaxEvents THEN {"ok", "oserror"} ELSE {"ok"}

\* The query raised mysql.connector.Error.
Raises(o) == o \in {"err", "lost", "dead"}

Cost(o) == IF o \in {"err", "lost", "empty", "oserror"} THEN 1 ELSE 0

ConnAfter(o) == IF o = "lost" THEN "dead" ELSE connection

Failure(stage, what, obj, how) ==
    [stage |-> stage, what |-> what, obj |-> obj, how |-> how]

\* ------------------------------------------------- export(): stage order
\* Lines 637-655: which stage follows, from the mode and the include flags.
AfterRoutines == IF include_triggers THEN "triggers" ELSE "finally"
\* A routing that goes from the views straight to the triggers.
AfterViewsSkipsRoutines == AfterRoutines

AfterViews == IF include_routines THEN "routines" ELSE AfterRoutines
\* A routing that runs the views stage whatever its flag.
AfterDataViewsAlways == "views"

AfterData == IF include_views THEN "views" ELSE AfterViews
AfterStructure == IF export_method = "full" THEN "data" ELSE AfterData
AfterConnect ==
    IF export_method \in {"structure", "full"} THEN "structure"
    ELSE IF export_method = "data" THEN "data" ELSE AfterData

\* The artifact the data stage writes to: the structure file in full mode
\* (append_to_file), a data file of its own otherwise.
\* A data stage that always writes its own file.
DataSectionOwnFile == "data"

DataSection == IF export_method = "full" THEN "structure" ELSE "data"

\* A main that hands any batch size to the exporter.
main_unvalidated ==
    /\ pc = "main"
    /\ pc' = "connect"
    /\ UNCHANGED <<cfgVars, sideVars, connVars, raised, exit_status, dbVars, faults, failed,
                   outVars, queries, stages, listVars, loopVars>>

\* Lines 783-806: main validates --batch-size before it builds the exporter;
\* sys.exit(1) there ends the program outside export, with no cleanup to run.
main ==
    /\ pc = "main"
    /\ IF batch_size < 1
       THEN pc' = "rejected" /\ raised' = "SystemExit" /\ exit_status' = 1
       ELSE pc' = "connect" /\ UNCHANGED <<raised, exit_status>>
    /\ UNCHANGED <<cfgVars, sideVars, connVars, dbVars, faults, failed, outVars, queries,
                   stages, listVars, loopVars>>

\* A run that does not test what connect() returned.
connect_unchecked ==
    /\ pc = "connect"
    /\ stages' = Append(stages, "connect")
    /\ \E o \in (IF Events < MaxEvents THEN {"ok", "err", "unconnected"} ELSE {"ok"}) :
         /\ connection' = IF o = "ok" THEN "open" ELSE IF o = "err" THEN "none" ELSE "dead"
         /\ faults' = faults + Cost(o)
         /\ failed' = IF o = "ok" THEN failed
                      ELSE failed \cup {Failure("connect", "connect", "", o)}
    /\ pc' = AfterConnect
    /\ UNCHANGED <<cfgVars, sideVars, close_calls, raised, exit_status, dbVars, outVars, queries,
                   listVars, loopVars>>

\* connect(): True with an open connection, False when the connector raises
\* Error (self.connection stays None) or hands back a connection that is not
\* connected; export then calls sys.exit(1).
connect ==
    /\ pc = "connect"
    /\ stages' = Append(stages, "connect")
    /\ \E o \in (IF Events < MaxEvents THEN {"ok", "err", "unconnected"} ELSE {"ok"}) :
         IF o = "ok"
         THEN /\ connection' = "open"
              /\ pc' = AfterConnect
              /\ UNCHANGED <<raised, faults, failed>>
         ELSE /\ connection' = IF o = "err" THEN "none" ELSE "dead"
              /\ raised' = "SystemExit"
              /\ pc' = "finally"
              /\ faults' = faults + 1
              /\ failed' = failed \cup {Failure("connect", "connect", "", o)}
    /\ UNCHANGED <<cfgVars, sideVars, close_calls, exit_status, dbVars, outVars, queries,
                   listVars, loopVars>>

\* A cleanup that forgets connection.close().
disconnect_without_close ==
    /\ pc = "finally"
    /\ stages' = Append(stages, "disconnect")
    /\ exit_status' = IF raised = "none" THEN 0 ELSE 1
    /\ pc' = "done"
    /\ UNCHANGED <<cfgVars, sideVars, connVars, raised, dbVars, faults, failed, outVars,
                   queries, listVars, loopVars>>

\* disconnect(), called from export's finally block, and the end of the
\* process: status 1 after sys.exit(1) or an uncaught exception, else 0.
disconnect ==
    /\ pc = "finally"
    /\ stages' = Append(stages, "disconnect")
    /\ IF connection = "open"
       THEN connection' = "closed" /\ close_calls' = close_calls + 1
       ELSE UNCHANGED connVars
    /\ exit_status' = IF raised = "none" THEN 0 ELSE 1
    /\ pc' = "done"
    /\ UNCHANGED <<cfgVars, sideVars, raised, dbVars, faults, failed, outVars, queries,
                   listVars, loopVars>>

\* An error that is only reported: the run goes on with the later stages.
PropagateReported(stage, what, obj, how) ==
    /\ raised' = raised
    /\ pc' = AfterData
    /\ failed' = failed \cup {Failure(stage, what, obj, how)}

\* What leaves a stage when a call raises: export catches
\* mysql.connector.Error and calls sys.exit(1); anything else passes through.
\* Either way the finally block is next.
Propagate(stage, what, obj, how) ==
    /\ raised' = IF how = "oserror" THEN "OSError" ELSE "SystemExit"
    /\ pc' = "finally"
    /\ failed' = failed \cup {Failure(stage, what, obj, how)}

Write(section, lines) == files' = [files EXCEPT ![section] = @ \o lines]

\* ------------------------------------------- export_tables_structure()
\* What the loop body writes for one table when SHOW CREATE TABLE ends o:
\* the comment and the DROP come first, the create text only with a result.
\* Nothing in the loop catches an exception.
TableLines(table, o) ==
    << Line("comment", "TABLE", table), Line("drop", "TABLE", table) >>
    \o (IF o = "ok"
        THEN <<CreateLine("TABLE", table, StripAutoIncrement(ShowCreate("TABLE", table)))>>
        ELSE <<>>)

\* get_tables(), open(output_file, 'w') and the header.
export_tables_structure_begin ==
    /\ pc = "structure"
    /\ stages' = Append(stages, "structure")
    /\ queries' = Append(queries, Query("list_tables", ""))
    /\ \E o \in QueryOutcomes, fo \in {"ok", "oserror"} :
         /\ fo \in OpenOutcomes(Cost(o))
         /\ connection' = ConnAfter(o)
         /\ IF Raises(o)
            THEN /\ fo = "ok"
                 /\ Propagate("structure", "list", "", o)
                 /\ faults' = faults + Cost(o)
                 /\ UNCHANGED <<outVars, tables, idx>>
            ELSE IF fo = "oserror"
            THEN /\ Propagate("structure", "open", "", fo)
                 /\ faults' = faults + 1
                 /\ UNCHANGED <<outVars, tables, idx>>
            ELSE /\ created' = created \cup {"structure"}
                 /\ files' = [files EXCEPT !["structure"] =
                        Header("structure")
                        \o <<Line("set_names", "", ""), Line("fk_off", "", "")>>]
                 /\ tables' = DbTables
                 /\ idx' = 1
                 /\ pc' = "structure_table"
                 /\ UNCHANGED <<raised, failed, faults>>
    /\ UNCHANGED <<cfgVars, sideVars, close_calls, exit_status, dbVars, views, procedures,
                   functions, triggers, total_rows, columns, offset>>

\* One pass of `for table in tables`.
export_tables_structure_table ==
    /\ pc = "structure_table"
    /\ idx <= Len(tables)
    /\ queries' = Append(queries, Query("show_create_table", tables[idx]))
    /\ \E o \in FetchOutcomes :
         /\ connection' = ConnAfter(o)
         /\ faults' = faults + Cost(o)
         /\ Write("structure", TableLines(tables[idx], o))
         /\ IF Raises(o)
            THEN /\ Propagate("structure", "fetch", tables[idx], o)
                 /\ UNCHANGED idx
            ELSE /\ idx' = idx + 1
                 /\ failed' = IF o = "empty"
                              THEN failed \cup {Failure("structure", "fetch", tables[idx], o)}
                              ELSE failed
                 /\ UNCHANGED <<pc, raised>>
    /\ UNCHANGED <<cfgVars, sideVars, close_calls, exit_status, dbVars, created, stages,
                   listVars, total_rows, columns, offset>>

\* After the loop: SET FOREIGN_KEY_CHECKS=1 and return.
export_tables_structure_end ==
    /\ pc = "structure_table"
    /\ idx > Len(tables)
    /\ Write("structure", <<Line("fk_on", "", "")>>)
    /\ tables' = <<>>
    /\ idx' = 0
    /\ pc' = AfterStructure
    /\ UNCHANGED <<cfgVars, sideVars, connVars, raised, exit_status, dbVars, faults, failed,
                   created, queries, stages, views, procedures, functions,
                   triggers, total_rows, columns, offset>>

\* ------------------------------------------------ export_tables_data()
\* Lines 295-299: the names of the columns whose Extra does not contain
\* GENERATED, in the order SHOW COLUMNS gave them.
\* A filter that compares Extra with GENERATED instead of searching it.
RECURSIVE FilterColumnsExact(_)
FilterColumnsExact(all_columns_info) ==
    IF all_columns_info = <<>> THEN <<>>
    ELSE (IF Head(all_columns_info).Extra /= GENERATED
          THEN <<Head(all_columns_info).Field>> ELSE <<>>)
         \o FilterColumnsExact(Tail(all_columns_info))

RECURSIVE FilterColumns(_)
FilterColumns(all_columns_info) ==
    IF all_columns_info = <<>> THEN <<>>
    ELSE (IF ~Contains(GENERATED, Head(all_columns_info).Extra)
          THEN <<Head(all_columns_info).Field>> ELSE <<>>)
         \o FilterColumns(Tail(all_columns_info))

\* Lines 319-322: one value tuple per fetched row, each value escaped.
ValuesList(table, ids, cols) ==
    [r \in 1..Len(ids) |->
        [i \in 1..Len(cols) |-> escape_value(SelectRow(table, ids[r], cols)[i])]]

\* A loop that stops before a last, partial page.
PageLoopFullPagesOnly == offset + batch_size <= total_rows

\* Line 309: while offset < total_rows.
PageLoopContinues == offset < total_rows

\* A loop that steps one row at a time.
NextOffsetByOne == offset + 1

\* Line 330: offset += self.batch_size.
NextOffset == offset + batch_size

\* A preamble that writes the file header in append mode too.
DataPreambleWithHeader(append_to_file) ==
    (IF append_to_file THEN Separator ELSE <<>>)
    \o Header("data")
    \o << Line("set_names", "", ""), Line("fk_off", "", ""),
          Line("start_transaction", "", "") >>

\* Lines 259-273: what the data stage writes first, the separator in full
\* mode and the file header otherwise, then the opening statements.
DataPreamble(append_to_file) ==
    (IF append_to_file THEN Separator ELSE Header("data"))
    \o << Line("set_names", "", ""), Line("fk_off", "", ""),
          Line("start_transaction", "", "") >>

\* A test that never takes the empty branch.
TableNeverEmpty(n) == FALSE

\* Line 286: if total_rows == 0.
TableIsEmpty(n) == n = 0

\* get_tables(), open(output_file, 'a' or 'w') and the preamble.
export_tables_data_begin ==
    /\ pc = "data"
    /\ stages' = Append(stages, "data")
    /\ queries' = Append(queries, Query("list_tables", ""))
    /\ \E o \in QueryOutcomes, fo \in {"ok", "oserror"} :
         /\ fo \in OpenOutcomes(Cost(o))
         /\ connection' = ConnAfter(o)
         /\ IF Raises(o)
            THEN /\ fo = "ok"
                 /\ Propagate("data", "list", "", o)
                 /\ faults' = faults + Cost(o)
                 /\ UNCHANGED <<outVars, tables, idx>>
            ELSE IF fo = "oserror"
            THEN /\ Propagate("data", "open", "", fo)
                 /\ faults' = faults + 1
                 /\ UNCHANGED <<outVars, tables, idx>>
            ELSE /\ created' = created \cup {DataSection}
                 /\ files' = [files EXCEPT ![DataSection] =
                        (IF export_method = "full" THEN @ ELSE <<>>)
                        \o DataPreamble(export_method = "full")]
                 /\ tables' = DbTables
                 /\ idx' = 1
                 /\ pc' = "data_table"
                 /\ UNCHANGED <<raised, failed, faults>>
    /\ UNCHANGED <<cfgVars, sideVars, close_calls, exit_status, dbVars, views, procedures,
                   functions, triggers, total_rows, columns, offset>>

\* Lines 277-289: the table's comment, SELECT COUNT(*), and the empty case.
export_tables_data_count ==
    /\ pc = "data_table"
    /\ idx <= Len(tables)
    /\ \E o \in QueryOutcomes :
         LET table == tables[idx]
             n == Len(db_rows[table])
         IN
         /\ connection' = ConnAfter(o)
         /\ faults' = faults + Cost(o)
         /\ queries' = Append(queries,
                [Query("count", table) EXCEPT !.n = IF Raises(o) THEN -1 ELSE n])
         /\ IF Raises(o)
            THEN /\ Write(DataSection, <<Line("data_comment", "TABLE", table)>>)
                 /\ Propagate("data", "count", table, o)
                 /\ UNCHANGED <<idx, total_rows>>
            ELSE IF TableIsEmpty(n)
            THEN /\ Write(DataSection, << Line("data_comment", "TABLE", table),
                                          Line("empty_comment", "TABLE", table) >>)
                 /\ idx' = idx + 1
                 /\ total_rows' = 0
                 /\ UNCHANGED <<pc, raised, failed>>
            ELSE /\ Write(DataSection, <<Line("data_comment", "TABLE", table)>>)
                 /\ total_rows' = n
                 /\ pc' = "data_columns"
                 /\ UNCHANGED <<idx, raised, failed>>
    /\ UNCHANGED <<cfgVars, sideVars, close_calls, exit_status, dbVars, created, stages,
                   listVars, columns, offset>>

\* Lines 291-306: SHOW COLUMNS, the filtered column list, offset = 0.
export_tables_data_columns ==
    /\ pc = "data_columns"
    /\ queries' = Append(queries, Query("show_columns", tables[idx]))
    /\ \E o \in QueryOutcomes :
         /\ connection' = ConnAfter(o)
         /\ faults' = faults + Cost(o)
         /\ IF Raises(o)
            THEN /\ Propagate("data", "columns", tables[idx], o)
                 /\ UNCHANGED <<columns, offset>>
            ELSE /\ columns' = FilterColumns(ShowColumns(tables[idx]))
                 /\ offset' = 0
                 /\ pc' = "data_page"
                 /\ UNCHANGED <<raised, failed>>
    /\ UNCHANGED <<cfgVars, sideVars, close_calls, exit_status, dbVars, outVars, stages,
                   listVars, idx, total_rows>>

\* Lines 309-331: one page, its INSERT when it holds rows, the next offset.
export_tables_data_page ==
    /\ pc = "data_page"
    /\ PageLoopContinues
    /\ queries' = Append(queries,
           [Query("select", tables[idx]) EXCEPT
               !.cols = columns, !.limit = batch_size, !.offset = offset])
    /\ \E o \in QueryOutcomes :
         LET table == tables[idx]
             rows == SelectPage(db_rows[table], batch_size, offset)
         IN
         /\ connection' = ConnAfter(o)
         /\ faults' = faults + Cost(o)
         /\ IF Raises(o)
            THEN /\ Propagate("data", "page", table, o)
                 /\ UNCHANGED <<files, offset>>
            ELSE /\ IF rows /= <<>>
                    THEN Write(DataSection,
                             <<InsertLine(table, columns, ValuesList(table, rows, columns))>>)
                    ELSE UNCHANGED files
                 /\ offset' = NextOffset
                 /\ UNCHANGED <<pc, raised, failed>>
    /\ UNCHANGED <<cfgVars, sideVars, close_calls, exit_status, dbVars, created, stages,
                   listVars, idx, total_rows, columns>>

\* A table end that commits the table and opens a transaction for the next.
export_tables_data_table_end_committing ==
    /\ pc = "data_page"
    /\ ~PageLoopContinues
    /\ Write(DataSection, << Line("commit", "", ""), Line("blank", "", ""),
                             Line("start_transaction", "", "") >>)
    /\ idx' = idx + 1
    /\ total_rows' = 0
    /\ columns' = <<>>
    /\ offset' = 0
    /\ pc' = "data_table"
    /\ UNCHANGED <<cfgVars, sideVars, connVars, raised, exit_status, dbVars, faults, failed,
                   created, queries, stages, listVars>>

\* Lines 333-334: the loop is over, a blank line, the next table.
export_tables_data_table_end ==
    /\ pc = "data_page"
    /\ ~PageLoopContinues
    /\ Write(DataSection, <<Line("blank", "", "")>>)
    /\ idx' = idx + 1
    /\ total_rows' = 0
    /\ columns' = <<>>
    /\ offset' = 0
    /\ pc' = "data_table"
    /\ UNCHANGED <<cfgVars, sideVars, connVars, raised, exit_status, dbVars, faults, failed,
                   created, queries, stages, listVars>>

\* Lines 336-342: COMMIT, SET FOREIGN_KEY_CHECKS=1 and return.
export_tables_data_end ==
    /\ pc = "data_table"
    /\ idx > Len(tables)
    /\ Write(DataSection, <<Line("commit", "", ""), Line("fk_on", "", "")>>)
    /\ tables' = <<>>
    /\ idx' = 0
    /\ pc' = AfterData
    /\ UNCHANGED <<cfgVars, sideVars, connVars, raised, exit_status, dbVars, faults, failed,
                   created, queries, stages, views, procedures, functions,
                   triggers, total_rows, columns, offset>>

\* --------------------------------------------------------- export_views()
\* "-- Total <Kind>: <n>" of a header.
TotalLine(kind, n) == [Line("total", kind, "") EXCEPT !.text = DecStr(n)]

\* An except clause that swallows the exception and writes nothing.
ViewLinesSilent(view, o) ==
    << Line("comment", "VIEW", view), Line("drop", "VIEW", view) >>
    \o (IF o = "ok" THEN <<CreateLine("VIEW", view, ShowCreate("VIEW", view))>>
        ELSE <<>>)

\* Lines 382-393: what the loop body writes for one view when SHOW CREATE
\* VIEW ends o. The comment and the DROP are written before the fetch; an
\* exception is caught and leaves the error comment.
ViewLines(view, o) ==
    << Line("comment", "VIEW", view), Line("drop", "VIEW", view) >>
    \o (IF Raises(o) THEN <<Line("error", "VIEW", view)>>
        ELSE IF o = "ok" THEN <<CreateLine("VIEW", view, ShowCreate("VIEW", view))>>
        ELSE <<>>)

\* Lines 358-376: get_views() (a failure leaves views = []), open, the
\* header, and the "no views" comment of an empty listing.
export_views_begin ==
    /\ pc = "views"
    /\ stages' = Append(stages, "views")
    /\ queries' = Append(queries, Query("list_views", ""))
    /\ \E o \in QueryOutcomes, fo \in {"ok", "oserror"} :
         LET listed == IF Raises(o) THEN <<>> ELSE DbViews
             listFailure == IF Raises(o) THEN {Failure("views", "list", "", o)} ELSE {}
         IN
         /\ fo \in OpenOutcomes(Cost(o))
         /\ connection' = ConnAfter(o)
         /\ faults' = faults + Cost(o) + Cost(fo)
         /\ IF fo = "oserror"
            THEN /\ raised' = "OSError"
                 /\ pc' = "finally"
                 /\ failed' = failed \cup listFailure
                                     \cup {Failure("views", "open", "", fo)}
                 /\ UNCHANGED <<outVars, views, idx>>
            ELSE /\ created' = created \cup {"views"}
                 /\ files' = [files EXCEPT !["views"] =
                        Header("views")
                        \o <<TotalLine("VIEW", Len(listed)), Line("set_names", "", "")>>
                        \o (IF listed = <<>> THEN <<Line("none_found", "VIEW", "")>>
                            ELSE <<>>)]
                 /\ failed' = failed \cup listFailure
                 /\ IF listed = <<>>
                    THEN pc' = AfterViews /\ UNCHANGED <<views, idx>>
                    ELSE pc' = "views_view" /\ views' = listed /\ idx' = 1
                 /\ UNCHANGED raised
    /\ UNCHANGED <<cfgVars, sideVars, close_calls, exit_status, dbVars, tables, procedures,
                   functions, triggers, total_rows, columns, offset>>

\* One pass of `for view in views`.
export_views_view ==
    /\ pc = "views_view"
    /\ idx <= Len(views)
    /\ queries' = Append(queries, Query("show_create_view", views[idx]))
    /\ \E o \in FetchOutcomes :
         /\ connection' = ConnAfter(o)
         /\ faults' = faults + Cost(o)
         /\ Write("views", ViewLines(views[idx], o))
         /\ failed' = IF o = "ok" THEN failed
                      ELSE failed \cup {Failure("views", "fetch", views[idx], o)}
    /\ idx' = idx + 1
    /\ UNCHANGED <<pc, cfgVars, sideVars, close_calls, raised, exit_status, dbVars, created,
                   stages, listVars, total_rows, columns, offset>>

\* Lines 395-398: the loop is over.
export_views_end ==
    /\ pc = "views_view"
    /\ idx > Len(views)
    /\ views' = <<>>
    /\ idx' = 0
    /\ pc' = AfterViews
    /\ UNCHANGED <<cfgVars, sideVars, connVars, raised, exit_status, dbVars, faults, failed,
                   outVars, queries, stages, tables, procedures, functions,
                   triggers, total_rows, columns, offset>>

\* ------------------------------------------------------ export_routines()
\* Lines 447-461: one procedure. DROP and DELIMITER $$ are written before the
\* fetch, DELIMITER ; after it; an exception skips to the error comment.
ProcedureLines(procedure, o) ==
    << Line("comment", "PROCEDURE", procedure), Line("drop", "PROCEDURE", procedure),
       Line("delimiter_open", "PROCEDURE", procedure) >>
    \o (IF Raises(o) THEN <<Line("error", "PROCEDURE", procedure)>>
        ELSE (IF o = "ok"
              THEN <<CreateLine("PROCEDURE", procedure, ShowCreate("PROCEDURE", procedure))>>
              ELSE <<>>)
             \o <<Line("delimiter_reset", "PROCEDURE", procedure)>>)

\* Lines 467-481: one function, written like a procedure.
FunctionLines(function, o) ==
    << Line("comment", "FUNCTION", function), Line("drop", "FUNCTION", function),
       Line("delimiter_open", "FUNCTION", function) >>
    \o (IF Raises(o) THEN <<Line("error", "FUNCTION", function)>>
        ELSE (IF o = "ok"
              THEN <<CreateLine("FUNCTION", function, ShowCreate("FUNCTION", function))>>
              ELSE <<>>)
             \o <<Line("delimiter_reset", "FUNCTION", function)>>)

\* A procedure listing whose error is not caught in the stage.
export_routines_procedures_uncaught ==
    /\ pc = "routines"
    /\ stages' = Append(stages, "routines")
    /\ queries' = Append(queries, Query("list_procedures", ""))
    /\ \E o \in QueryOutcomes :
         /\ connection' = ConnAfter(o)
         /\ faults' = faults + Cost(o)
         /\ IF Raises(o)
            THEN /\ Propagate("routines", "list_procedures", "", o)
                 /\ procedures' = procedures
            ELSE /\ procedures' = DbProcedures
                 /\ pc' = "routines_functions"
                 /\ UNCHANGED <<raised, failed>>
    /\ UNCHANGED <<cfgVars, sideVars, close_calls, exit_status, dbVars, outVars,
                   tables, views, functions, triggers, loopVars>>

\* Lines 414-419: get_procedures(); a failure leaves procedures = [].
export_routines_procedures ==
    /\ pc = "routines"
    /\ stages' = Append(stages, "routines")
    /\ queries' = Append(queries, Query("list_procedures", ""))
    /\ \E o \in QueryOutcomes :
         /\ connection' = ConnAfter(o)
         /\ faults' = faults + Cost(o)
         /\ procedures' = IF Raises(o) THEN <<>> ELSE DbProcedures
         /\ failed' = IF Raises(o)
                      THEN failed \cup {Failure("routines", "list_procedures", "", o)}
                      ELSE failed
    /\ pc' = "routines_functions"
    /\ UNCHANGED <<cfgVars, sideVars, close_calls, raised, exit_status, dbVars, outVars,
                   tables, views, functions, triggers, loopVars>>

\* Lines 421-441: get_functions() (a failure leaves functions = []), open,
\* the header, and the "no routines" comment when both listings are empty.
export_routines_functions ==
    /\ pc = "routines_functions"
    /\ queries' = Append(queries, Query("list_functions", ""))
    /\ \E o \in QueryOutcomes, fo \in {"ok", "oserror"} :
         LET listed == IF Raises(o) THEN <<>> ELSE DbFunctions
             listFailure == IF Raises(o)
                            THEN {Failure("routines", "list_functions", "", o)} ELSE {}
         IN
         /\ fo \in OpenOutcomes(Cost(o))
         /\ connection' = ConnAfter(o)
         /\ faults' = faults + Cost(o) + Cost(fo)
         /\ IF fo = "oserror"
            THEN /\ raised' = "OSError"
                 /\ pc' = "finally"
                 /\ failed' = failed \cup listFailure
                                     \cup {Failure("routines", "open", "", fo)}
                 /\ UNCHANGED <<outVars, functions, idx>>
            ELSE /\ created' = created \cup {"routines"}
                 /\ files' = [files EXCEPT !["routines"] =
                        Header("routines")
                        \o << TotalLine("PROCEDURE", Len(procedures)),
                              TotalLine("FUNCTION", Len(listed)),
                              Line("set_names", "", "") >>
                        \o (IF procedures = <<>> /\ listed = <<>>
                            THEN <<Line("none_found", "ROUTINE", "")>> ELSE <<>>)]
                 /\ failed' = failed \cup listFailure
                 /\ functions' = listed
                 /\ IF procedures = <<>> /\ listed = <<>>
                    THEN pc' = "routines_end" /\ UNCHANGED idx
                    ELSE /\ pc' = IF procedures /= <<>> THEN "routines_procedure"
                                  ELSE "routines_function"
                         /\ idx' = 1
                 /\ UNCHANGED raised
    /\ UNCHANGED <<cfgVars, sideVars, close_calls, exit_status, dbVars, stages, tables, views,
                   procedures, triggers, total_rows, columns, offset>>

\* One pass of `for procedure in procedures`; after the last one the
\* functions loop starts.
export_routines_procedure ==
    /\ pc = "routines_procedure"
    /\ queries' = Append(queries, Query("show_create_procedure", procedures[idx]))
    /\ \E o \in FetchOutcomes :
         /\ connection' = ConnAfter(o)
         /\ faults' = faults + Cost(o)
         /\ Write("routines", ProcedureLines(procedures[idx], o))
         /\ failed' = IF o = "ok" THEN failed
                      ELSE failed \cup {Failure("routines", "fetch", procedures[idx], o)}
    /\ IF idx < Len(procedures)
       THEN idx' = idx + 1 /\ UNCHANGED pc
       ELSE /\ idx' = 1
            /\ pc' = IF functions /= <<>> THEN "routines_function" ELSE "routines_end"
    /\ UNCHANGED <<cfgVars, sideVars, close_calls, raised, exit_status, dbVars, created,
                   stages, listVars, total_rows, columns, offset>>

\* One pass of `for function in functions`.
export_routines_function ==
    /\ pc = "routines_function"
    /\ queries' = Append(queries, Query("show_create_function", functions[idx]))
    /\ \E o \in FetchOutcomes :
         /\ connection' = ConnAfter(o)
         /\ faults' = faults + Cost(o)
         /\ Write("routines", FunctionLines(functions[idx], o))
         /\ failed' = IF o = "ok" THEN failed
                      ELSE failed \cup {Failure("routines", "fetch", functions[idx], o)}
    /\ IF idx < Len(functions)
       THEN idx' = idx + 1 /\ UNCHANGED pc
       ELSE idx' = 0 /\ pc' = "routines_end"
    /\ UNCHANGED <<cfgVars, sideVars, close_calls, raised, exit_status, dbVars, created,
                   stages, listVars, total_rows, columns, offset>>

\* Lines 483-486: the file is closed, export_routines returns.
export_routines_end ==
    /\ pc = "routines_end"
    /\ procedures' = <<>>
    /\ functions' = <<>>
    /\ idx' = 0
    /\ pc' = AfterRoutines
    /\ UNCHANGED <<cfgVars, sideVars, connVars, raised, exit_status, dbVars, faults, failed,
                   outVars, queries, stages, tables, views, triggers, total_rows,
                   columns, offset>>

\* ------------------------------------------------------ export_triggers()
\* Lines 526-540: one trigger, written like a procedure.
TriggerLines(trigger, o) ==
    << Line("comment", "TRIGGER", trigger), Line("drop", "TRIGGER", trigger),
       Line("delimiter_open", "TRIGGER", trigger) >>
    \o (IF Raises(o) THEN <<Line("error", "TRIGGER", trigger)>>
        ELSE (IF o = "ok"
              THEN <<CreateLine("TRIGGER", trigger, ShowCreate("TRIGGER", trigger))>>
              ELSE <<>>)
             \o <<Line("delimiter_reset", "TRIGGER", trigger)>>)

\* Lines 502-519: get_triggers() (a failure leaves triggers = []), open, the
\* header, and the "no triggers" comment of an empty listing.
export_triggers_begin ==
    /\ pc = "triggers"
    /\ stages' = Append(stages, "triggers")
    /\ queries' = Append(queries, Query("list_triggers", ""))
    /\ \E o \in QueryOutcomes, fo \in {"ok", "oserror"} :
         LET listed == IF Raises(o) THEN <<>> ELSE DbTriggers
             listFailure == IF Raises(o) THEN {Failure("triggers", "list", "", o)} ELSE {}
         IN
         /\ fo \in OpenOutcomes(Cost(o))
         /\ connection' = ConnAfter(o)
         /\ faults' = faults + Cost(o) + Cost(fo)
         /\ IF fo = "oserror"
            THEN /\ raised' = "OSError"
                 /\ pc' = "finally"
                 /\ failed' = failed \cup listFailure
                                     \cup {Failure("triggers", "open", "", fo)}
                 /\ UNCHANGED <<outVars, triggers, idx>>
            ELSE /\ created' = created \cup {"triggers"}
                 /\ files' = [files EXCEPT !["triggers"] =
                        Header("triggers")
                        \o <<TotalLine("TRIGGER", Len(listed)), Line("set_names", "", "")>>
                        \o (IF listed = <<>> THEN <<Line("none_found", "TRIGGER", "")>>
                            ELSE <<>>)]
                 /\ failed' = failed \cup listFailure
                 /\ IF listed = <<>>
                    THEN pc' = "finally" /\ UNCHANGED <<triggers, idx>>
                    ELSE pc' = "triggers_trigger" /\ triggers' = listed /\ idx' = 1
                 /\ UNCHANGED raised
    /\ UNCHANGED <<cfgVars, sideVars, close_calls, exit_status, dbVars, tables, views,
                   procedures, functions, total_rows, columns, offset>>

\* One pass of `for trigger in triggers`.
export_triggers_trigger ==
    /\ pc = "triggers_trigger"
    /\ idx <= Len(triggers)
    /\ queries' = Append(queries, Query("show_create_trigger", triggers[idx]))
    /\ \E o \in FetchOutcomes :
         /\ connection' = ConnAfter(o)
         /\ faults' = faults + Cost(o)
         /\ Write("triggers", TriggerLines(triggers[idx], o))
         /\ failed' = IF o = "ok" THEN failed
                      ELSE failed \cup {Failure("triggers", "fetch", triggers[idx], o)}
    /\ idx' = idx + 1
    /\ UNCHANGED <<pc, cfgVars, sideVars, close_calls, raised, exit_status, dbVars, created,
                   stages, listVars, total_rows, columns, offset>>

\* Lines 542-545 and 657-659: the loop is over, export's try block ends.
export_triggers_end ==
    /\ pc = "triggers_trigger"
    /\ idx > Len(triggers)
    /\ triggers' = <<>>
    /\ idx' = 0
    /\ pc' = "finally"
    /\ UNCHANGED <<cfgVars, sideVars, connVars, raised, exit_status, dbVars, faults, failed,
                   outVars, queries, stages, tables, views, procedures, functions,
                   total_rows, columns, offset>>

\* ------------------------------------------------- the database's writers
\* No snapshot is taken: between two page queries of a table another session
\* may delete its first or its last row, or insert a row after the last.
RemoveAt(s, i) == SubSeq(s, 1, i - 1) \o SubSeq(s, i + 1, Len(s))

db_delete_row ==
    /\ pc = "data_page"
    /\ Events < MaxEvents
    /\ \E i \in {1, Len(db_rows[tables[idx]])} :
         /\ i >= 1
         /\ db_rows' = [db_rows EXCEPT ![tables[idx]] = RemoveAt(@, i)]
    /\ db_changes' = db_changes + 1
    /\ UNCHANGED <<pc, cfgVars, sideVars, connVars, raised, exit_status, faults, failed,
                   outVars, queries, stages, listVars, loopVars>>

db_insert_row ==
    /\ pc = "data_page"
    /\ Events < MaxEvents
    /\ db_rows' = [db_rows EXCEPT ![tables[idx]] =
                      Append(@, MaxRows + 1 + db_changes)]
    /\ db_changes' = db_changes + 1
    /\ UNCHANGED <<pc, cfgVars, sideVars, connVars, raised, exit_status, faults, failed,
                   outVars, queries, stages, listVars, loopVars>>

Next ==
    \/ main
    \/ connect
    \/ export_tables_structure_begin
    \/ export_tables_structure_table
    \/ export_tables_structure_end
    \/ export_tables_data_begin
    \/ export_tables_data_count
    \/ export_tables_data_columns
    \/ export_tables_data_page
    \/ export_tables_data_table_end
    \/ export_tables_data_end
    \/ db_delete_row
    \/ db_insert_row
    \/ export_views_begin
    \/ export_views_view
    \/ export_views_end
    \/ export_routines_procedures
    \/ export_routines_functions
    \/ export_routines_procedure
    \/ export_routines_function
    \/ export_routines_end
    \/ export_triggers_begin
    \/ export_triggers_trigger
    \/ export_triggers_end
    \/ disconnect

Spec == Init /\ [][Next]_vars

\* The run is one thread and every call returns before the next statement:
\* an iteration of the page loop that can run does run, and so does the
\* statement after the loop.
\*
\* PageIteration is export_tables_data_page for the purpose of fairness. Its
\* first disjunct has the guard of the loop (line 309) and the step of the
\* offset (line 330) and nothing of the page: no step of the run is such a
\* step, since every iteration sends a query, so the steps of PageIteration
\* in a run are those of export_tables_data_page, and both are enabled in
\* the same states. It lets ENABLED be decided from the guard, without
\* building the INSERT text of the page.
PageIteration ==
    \/ /\ pc = "data_page"
       /\ PageLoopContinues
       /\ offset' = NextOffset
       /\ UNCHANGED <<pc, cfgVars, sideVars, connVars, raised, exit_status, dbVars,
                      faults, failed, outVars, queries, stages, listVars, idx,
                      total_rows, columns>>
    \/ export_tables_data_page

SpecPaging ==
    /\ Spec
    /\ WF_vars(PageIteration)
    /\ WF_vars(export_tables_data_table_end)

\* ------------------------------------------- escape_value called on its own
\* The longest text or byte string passed in.
MaxLen == 3

\* The characters escape_value treats specially, and ordinary letters with
\* the three that name an escape.
Alphabet == {"\\", "'", "\"", "\n", "\r", "\t", "a", "n", "r", "t"}

SampleBytes == {0, 10, 173, 222, 255}

SampleInts == {-120, -7, 0, 5, 10, 42, 1000}

SeqsUpTo(S, n) == UNION {[1..k -> S] : k \in 0..n}

\* The values a cell can hold: None, int, bytes, and str for the rest.
EscapeInputs ==
    {NullValue}
    \cup {IntValue(n) : n \in SampleInts}
    \cup {BytesValue(b) : b \in SeqsUpTo(SampleBytes, MaxLen)}
    \cup {TextValue(s) : s \in SeqsUpTo(Alphabet, MaxLen)}

\* No export is running.
ExporterQuiet ==
    /\ export_method = "full" /\ batch_size = 1
    /\ include_views = TRUE /\ include_routines = TRUE /\ include_triggers = TRUE
    /\ connection = "none" /\ close_calls = 0
    /\ exit_status = -1
    /\ db_rows = [t \in {"t1", "t2"} |-> <<>>] /\ db_changes = 0
    /\ failed = {}
    /\ queries = <<>> /\ stages = <<>>
    /\ tables = <<>> /\ views = <<>> /\ procedures = <<>>
    /\ functions = <<>> /\ triggers = <<>>
    /\ idx = 0 /\ total_rows = 0 /\ columns = <<>> /\ offset = 0

\* No export is running and no output file exists.
ExporterIdle ==
    /\ ExporterQuiet
    /\ raised = "none" /\ faults = 0
    /\ files = [s \in Sections |-> <<>>] /\ created = {}

exporterVars == <<cfgVars, connVars, raised, exit_status, dbVars, faults, failed,
                  outVars, queries, stages, listVars, loopVars>>

EscapeInit ==
    /\ pc = "escape_value"
    /\ value \in EscapeInputs
    /\ encoded = <<>>
    /\ ExporterIdle
    /\ MailIdle
    /\ MergeIdle

\* Lines 162-189: one call of escape_value.
escape_value_call ==
    /\ pc = "escape_value"
    /\ encoded' = escape_value(value)
    /\ pc' = "returned"
    /\ UNCHANGED <<value, exporterVars, mailVars, mergeVars>>

EscapeNext == escape_value_call

SpecEscape == EscapeInit /\ [][EscapeNext]_vars

\* ------------------------------------------------------- the email sender
\* The longest --files list, and the largest --latest.
MaxFiles == 3

Paths == {"a.sql", "b.sql", "c.sql"}

\* The backup directory's files by modification time, newest first.
NewestFirst == <<"c.sql", "b.sql", "a.sql">>

\* os.path.exists(p)
Exists(p) == p \in fs

\* find_latest_backups: the `count` newest files of the directory.
find_latest_backups(count) ==
    LET found == SelectSeq(NewestFirst, Exists)
    IN  SubSeq(found, 1, Min(count, Len(found)))

MailInit ==
    /\ pc = "mail_main"
    /\ args_files \in SeqsUpTo(Paths, MaxFiles)
    /\ fs \in SUBSET Paths
    /\ fs_changes = 0
    /\ backup_files = <<>> /\ valid_files = <<>> /\ attach_idx = 0
    /\ attached = <<>> /\ warnings = <<>> /\ sent = "not_tried"
    /\ EscapeIdle
    /\ ExporterIdle
    /\ MergeIdle

\* Lines 321-335 of main: --files if given, else the newest files of the
\* backup directory; none found ends the program with status 1.
mail_main_select ==
    /\ pc = "mail_main"
    /\ IF args_files /= <<>>
       THEN /\ backup_files' = args_files
            /\ pc' = "mail_validate"
            /\ UNCHANGED exit_status
       ELSE \E count \in 1..MaxFiles :
              /\ backup_files' = find_latest_backups(count)
              /\ IF backup_files' = <<>>
                 THEN pc' = "mail_exit" /\ exit_status' = 1
                 ELSE pc' = "mail_validate" /\ UNCHANGED exit_status
    /\ UNCHANGED <<args_files, fs, fs_changes, valid_files, attach_idx, attached,
                   warnings, sent, escVars, mergeVars, cfgVars, connVars, raised, dbVars,
                   faults, failed, outVars, queries, stages, listVars, loopVars>>

\* A validation that gives up when any path is missing.
mail_main_validate_strict ==
    /\ pc = "mail_validate"
    /\ valid_files' = SelectSeq(backup_files, Exists)
    /\ warnings' = warnings \o SelectSeq(backup_files, LAMBDA p : ~Exists(p))
    /\ IF valid_files' /= backup_files
       THEN pc' = "mail_exit" /\ exit_status' = 1 /\ UNCHANGED attach_idx
       ELSE pc' = "mail_attach" /\ attach_idx' = 1 /\ UNCHANGED exit_status
    /\ UNCHANGED <<args_files, fs, fs_changes, backup_files, attached, sent,
                   escVars, mergeVars, cfgVars, connVars, raised, dbVars, faults, failed,
                   outVars, queries, stages, listVars, loopVars>>

\* Lines 337-347 of main: keep the paths that exist, warn about the others,
\* and end with status 1 when none is left.
mail_main_validate ==
    /\ pc = "mail_validate"
    /\ valid_files' = SelectSeq(backup_files, Exists)
    /\ warnings' = warnings \o SelectSeq(backup_files, LAMBDA p : ~Exists(p))
    /\ IF valid_files' = <<>>
       THEN pc' = "mail_exit" /\ exit_status' = 1 /\ UNCHANGED attach_idx
       ELSE pc' = "mail_attach" /\ attach_idx' = 1 /\ UNCHANGED exit_status
    /\ UNCHANGED <<args_files, fs, fs_changes, backup_files, attached, sent,
                   escVars, mergeVars, cfgVars, connVars, raised, dbVars, faults, failed,
                   outVars, queries, stages, listVars, loopVars>>

\* Lines 69-89 of send_backup: one turn of the attachment loop; a path that
\* does not exist (any more) is warned about and skipped.
send_backup_attach ==
    /\ pc = "mail_attach"
    /\ attach_idx <= Len(valid_files)
    /\ LET file_path == valid_files[attach_idx] IN
       IF ~Exists(file_path)
       THEN warnings' = Append(warnings, file_path) /\ UNCHANGED attached
       ELSE attached' = Append(attached, file_path) /\ UNCHANGED warnings
    /\ attach_idx' = attach_idx + 1
    /\ UNCHANGED <<pc, args_files, fs, fs_changes, backup_files, valid_files, sent,
                   escVars, mergeVars, exporterVars>>

\* Lines 98-123 of send_backup and line 376 of main: the message is sent or
\* the SMTP error is caught; the exit status is 0 only after a send.
send_backup_send ==
    /\ pc = "mail_attach"
    /\ attach_idx > Len(valid_files)
    /\ \E o \in {"ok", "SMTPAuthenticationError", "SMTPException"} :
         /\ sent' = IF o = "ok" THEN "ok" ELSE "failed"
         /\ exit_status' = IF o = "ok" THEN 0 ELSE 1
    /\ pc' = "mail_exit"
    /\ UNCHANGED <<args_files, fs, fs_changes, backup_files, valid_files, attach_idx,
                   attached, warnings, escVars, mergeVars, cfgVars, connVars, raised, dbVars,
                   faults, failed, outVars, queries, stages, listVars, loopVars>>

\* Another process removes a file while the sender runs.
fs_remove ==
    /\ pc \in {"mail_validate", "mail_attach"}
    /\ fs_changes < MaxEvents
    /\ \E p \in fs : fs' = fs \ {p}
    /\ fs_changes' = fs_changes + 1
    /\ UNCHANGED <<pc, args_files, backup_files, valid_files, attach_idx, attached,
                   warnings, sent, escVars, mergeVars, exporterVars>>

MailNext ==
    \/ mail_main_select
    \/ mail_main_validate
    \/ send_backup_attach
    \/ send_backup_send
    \/ fs_remove

SpecMail == MailInit /\ [][MailNext]_vars

\* ============================================= merging structure and data
\* merge_full_export and _merge_with_streaming (lines 547-613), called on
\* their own with a structure file and a data file that both exist.

\* Most lines either file holds when merge_full_export is called.
MaxMergeLines == 2
\* Lines one f_in.read(CHUNK_SIZE) returns, the files being lines here.
MaxChunk == 2

StructureSamples ==
    {Line("title", "structure", ""), Line("drop", "TABLE", "t1"),
     Line("create", "TABLE", "t1")}

DataSamples ==
    {Line("start_transaction", "", ""),
     InsertLine("t1", FilterColumns(ShowColumns("t1")),
                ValuesList("t1", <<1>>, FilterColumns(ShowColumns("t1")))),
     Line("commit", "", "")}

\* The rest of a file from position n on.
Rest(f, n) == SubSeq(f, n, Len(f))

\* Lines 609-613: read chunks until one comes back empty, writing each.
RECURSIVE StreamChunks(_)
StreamChunks(f_in) ==
    IF f_in = <<>> THEN <<>>
    ELSE LET chunk == SubSeq(f_in, 1, Min(MaxChunk, Len(f_in)))
         IN  chunk \o StreamChunks(Rest(f_in, Len(chunk) + 1))

\* Lines 596-613: the separator, then the data file in chunks.
StreamingAppend(f_out, f_in) == f_out \o Separator \o StreamChunks(f_in)

\* How `cat data_file >> structure_file` can end: it copies the file, or it
\* exits with an error (or cannot be started) after copying n lines.
CatOutcomes(f_in) ==
    {[ok |-> TRUE, n |-> Len(f_in)]}
    \cup {[ok |-> FALSE, n |-> n] : n \in 0..(IF f_in = <<>> THEN 0 ELSE Len(f_in) - 1)}

MergeInit ==
    /\ pc = "merge_full_export"
    /\ platform \in {"Linux", "Windows"}
    /\ \E s \in SeqsUpTo(StructureSamples, MaxMergeLines),
          d \in SeqsUpTo(DataSamples, MaxMergeLines) :
          /\ files = [x \in Sections |-> IF x = "structure" THEN s
                                         ELSE IF x = "data" THEN d ELSE <<>>]
          /\ merge_input = [structure |-> s, data |-> d]
    /\ created = {"structure", "data"}
    /\ raised = "none" /\ faults = 0
    /\ ExporterQuiet
    /\ EscapeIdle
    /\ MailIdle

mergeFrame == <<cfgVars, connVars, exit_status, dbVars, failed, queries, stages,
                listVars, loopVars, escVars, mailVars, mergeVars>>

\* Lines 565-580 and 585-587: off Windows the separator is appended and cat
\* appends the data file; on Windows the streaming copy runs.
merge_full_export_shell ==
    /\ pc = "merge_full_export"
    /\ IF platform /= "Windows"
       THEN \E r \in CatOutcomes(files["data"]) :
              /\ files' = [files EXCEPT !["structure"] =
                              @ \o Separator \o SubSeq(files["data"], 1, r.n)]
              /\ faults' = IF r.ok THEN faults ELSE faults + 1
              /\ pc' = IF r.ok THEN "merge_remove" ELSE "merge_fallback"
       ELSE /\ files' = [files EXCEPT !["structure"] =
                            StreamingAppend(@, files["data"])]
            /\ pc' = "merge_remove"
            /\ UNCHANGED faults
    /\ UNCHANGED <<created, raised, mergeFrame>>

\* Lines 582-584: the shell command failed; the except branch runs the
\* streaming copy.
merge_full_export_fallback ==
    /\ pc = "merge_fallback"
    /\ files' = [files EXCEPT !["structure"] = StreamingAppend(@, files["data"])]
    /\ pc' = "merge_remove"
    /\ UNCHANGED <<created, raised, faults, mergeFrame>>

\* Lines 589-594: os.remove(data_file), return structure_file.
merge_full_export_remove ==
    /\ pc = "merge_remove"
    /\ created' = created \ {"data"}
    /\ files' = [files EXCEPT !["data"] = <<>>]
    /\ pc' = "merged"
    /\ UNCHANGED <<raised, faults, mergeFrame>>

MergeNext ==
    \/ merge_full_export_shell
    \/ merge_full_export_fallback
    \/ merge_full_export_remove

SpecMerge == MergeInit /\ [][MergeNext]_vars

\* ================================================================= claims
Range(s) == {s[i] : i \in DOMAIN s}

\* The lines of a file that are the write k about an object of `kind`.
LinesOf(f, k, kind) == SelectSeq(f, LAMBDA l : l.k = k /\ l.kind = kind)

\* The lines of a file that are the write k about the object `name`.
LinesFor(f, k, kind, name) ==
    SelectSeq(f, LAMBDA l : l.k = k /\ l.kind = kind /\ l.name = name)

HasLine(f, k) == \E i \in DOMAIN f : f[i].k = k

\* The value tuples of a sequence of INSERT lines, concatenated in file order.
RECURSIVE Tuples(_)
Tuples(inserts) ==
    IF inserts = <<>> THEN <<>> ELSE Head(inserts).rows \o Tuples(Tail(inserts))

\* The file the data section is in.
DataFile == files[DataSection]

InsertsFor(t) == LinesFor(DataFile, "insert", "TABLE", t)

\* The tables whose pagination loop the data stage has finished.
DoneTables ==
    IF HasLine(DataFile, "commit") THEN Range(DbTables)
    ELSE IF "data" \in Range(stages) THEN {tables[i] : i \in 1..(idx - 1)}
    ELSE {}

CeilDiv(n, b) == (n + b - 1) \div b

\* C1: for a table of N rows that did not change during the export and a
\* batch size B >= 1, the data stage emits exactly ceil(N/B) INSERT
\* statements for it, their value tuples number N, and concatenated in
\* offset order they are the table's rows, none twice and none missing.
C1_BatchCompleteness ==
    db_changes = 0 =>
        \A t \in DoneTables :
            LET N == Len(db_rows[t])
                ins == InsertsFor(t)
                tup == Tuples(ins)
            IN  /\ batch_size >= 1
                /\ Len(ins) = CeilDiv(N, batch_size)
                /\ Len(tup) = N
                /\ tup = ValuesList(t, db_rows[t], FilterColumns(ShowColumns(t)))
                /\ \A i, j \in 1..Len(tup) : tup[i] = tup[j] => i = j

\* A table of 3 rows exported with batch size 2: two statements, the second
\* a partial page.
C1_Witness ==
    /\ db_changes = 0
    /\ "t1" \in DoneTables
    /\ Len(db_rows["t1"]) = 3
    /\ batch_size = 2
    /\ Len(InsertsFor("t1")) = 2

\* connect() returned True.
Connected == ~\E f \in failed : f.stage = "connect"

\* The connection broke during the run.
ConnectionLost == \E f \in failed : f.how = "lost"

\* C2 as stated: on every exit path the connection the run opened is closed
\* exactly once before the run ends, never twice, and none stays open.
C2_ClosedExactlyOnce ==
    /\ close_calls <= 1
    /\ (pc = "done" /\ Connected) => (close_calls = 1 /\ connection = "closed")
    /\ pc = "done" => connection /= "open"

\* C2, amended: on every exit path the cleanup block closes the connection
\* exactly once if it is still connected, and not at all if the run's
\* database error was the loss of the connection (is_connected() is False)
\* or connect never succeeded; close is never called twice nor before the
\* cleanup block, and no connected connection is left.
C2_ClosedOnceIfConnected ==
    /\ close_calls <= 1
    /\ pc /= "done" => close_calls = 0
    /\ pc = "done" =>
         /\ connection /= "open"
         /\ (Connected /\ ~ConnectionLost) => (close_calls = 1 /\ connection = "closed")
         /\ (~Connected \/ ConnectionLost) => close_calls = 0

\* A run that a database error ended, its connection closed once.
C2_Witness ==
    /\ pc = "done"
    /\ raised = "SystemExit"
    /\ Connected
    /\ close_calls = 1
    /\ connection = "closed"

\* C3 as stated: a failed fetch of one table's create statement is caught at
\* that table, a commented diagnostic line is written for it, the remaining
\* tables are still exported and the run is not aborted.
C3_TableFetchFailureIsolated ==
    \A f \in failed :
        (f.stage = "structure" /\ f.what = "fetch" /\ Raises(f.how)) =>
            /\ LinesFor(files["structure"], "error", "TABLE", f.obj) /= <<>>
            /\ raised = "none"
            /\ pc = "done" =>
                 \A t \in Range(DbTables) :
                     LinesFor(files["structure"], "drop", "TABLE", t) /= <<>>

\* The stages a run enters when nothing aborts it.
ExpectedStages ==
    <<"connect">>
    \o (IF export_method \in {"structure", "full"} THEN <<"structure">> ELSE <<>>)
    \o (IF export_method \in {"data", "full"} THEN <<"data">> ELSE <<>>)
    \o (IF include_views THEN <<"views">> ELSE <<>>)
    \o (IF include_routines THEN <<"routines">> ELSE <<>>)
    \o (IF include_triggers THEN <<"triggers">> ELSE <<>>)
    \o <<"disconnect">>

\* The objects a stage lists: <<kind, name>>.
StageObjects(stage) ==
    CASE stage = "views" -> {<<"VIEW", DbViews[i]>> : i \in DOMAIN DbViews}
      [] stage = "routines" ->
            {<<"PROCEDURE", DbProcedures[i]>> : i \in DOMAIN DbProcedures}
            \cup {<<"FUNCTION", DbFunctions[i]>> : i \in DOMAIN DbFunctions}
      [] OTHER -> {<<"TRIGGER", DbTriggers[i]>> : i \in DOMAIN DbTriggers}

AllErrorLines(f) == SelectSeq(f, LAMBDA l : l.k = "error")

\* The DROP of an object directly or (routines, triggers) after DELIMITER $$
\* followed by its create statement.
HasDropAndCreate(f, kind, name) ==
    /\ Len(LinesFor(f, "drop", kind, name)) = 1
    /\ Len(LinesFor(f, "create", kind, name)) = 1
    /\ \E i, j \in DOMAIN f :
         /\ i < j
         /\ f[i].k = "drop" /\ f[i].kind = kind /\ f[i].name = name
         /\ f[j].k = "create" /\ f[j].kind = kind /\ f[j].name = name
         /\ f[j].text = ShowCreate(kind, name)

\* C4: when the create-statement fetch fails for exactly one view (or one
\* procedure, function or trigger), the stage's artifact still holds the
\* DROP and CREATE of every other listed object, exactly one commented error
\* line, which is the failed object's, the later stages still run and the
\* exit status is 0 as in a run without failure.
C4_FailureIsolation ==
    \A f \in failed :
        ( /\ failed = {f}
          /\ f.stage \in {"views", "routines", "triggers"}
          /\ f.what = "fetch"
          /\ Raises(f.how)
          /\ pc = "done" ) =>
            /\ Len(AllErrorLines(files[f.stage])) = 1
            /\ AllErrorLines(files[f.stage])[1].name = f.obj
            /\ \A ob \in StageObjects(f.stage) :
                   ob[2] /= f.obj => HasDropAndCreate(files[f.stage], ob[1], ob[2])
            /\ stages = ExpectedStages
            /\ \A st \in {"views", "routines", "triggers"} :
                   st \in Range(ExpectedStages) => st \in created
            /\ raised = "none"
            /\ exit_status = 0

\* The fetch of view v1 failed; v2, the routines and the triggers followed.
C4_Witness ==
    /\ pc = "done"
    /\ failed = {Failure("views", "fetch", "v1", "err")}
    /\ include_routines
    /\ include_triggers
    /\ HasDropAndCreate(files["views"], "VIEW", "v2")

\* A run that met no failure and no concurrent change, at its end.
CleanRun == pc = "done" /\ failed = {} /\ db_changes = 0

RECURSIVE Flatten(_)
Flatten(ss) == IF ss = <<>> THEN <<>> ELSE Head(ss) \o Flatten(Tail(ss))

\* What mode 'structure' leaves in its structure artifact.
StructureArtifact ==
    << Line("title", "structure", ""), Line("database", "", ""),
       Line("generated", "", ""), Line("set_names", "", ""), Line("fk_off", "", "") >>
    \o Flatten([i \in DOMAIN DbTables |->
          << Line("comment", "TABLE", DbTables[i]), Line("drop", "TABLE", DbTables[i]),
             [Line("create", "TABLE", DbTables[i]) EXCEPT !.text =
                 <<"CREATE TABLE", DbTables[i], "(...) ENGINE=InnoDB",
                   " DEFAULT CHARSET=utf8mb4">>] >>])
    \o <<Line("fk_on", "", "")>>

\* The INSERT statements of a table of the given rows, page by page.
PagesOf(t, t_rows) ==
    [p \in 1..CeilDiv(Len(t_rows), batch_size) |->
        InsertLine(t, FilterColumns(ShowColumns(t)),
            ValuesList(t, SubSeq(t_rows, (p - 1) * batch_size + 1,
                                 Min(p * batch_size, Len(t_rows))),
                       FilterColumns(ShowColumns(t))))]

\* What mode 'data' leaves in its data artifact: the three header comments,
\* the opening statements, every table's section, the closing statements.
DataArtifact ==
    << Line("title", "data", ""), Line("database", "", ""),
       Line("generated", "", ""), Line("set_names", "", ""), Line("fk_off", "", ""),
       Line("start_transaction", "", "") >>
    \o Flatten([i \in DOMAIN DbTables |->
          <<Line("data_comment", "TABLE", DbTables[i])>>
          \o (IF db_rows[DbTables[i]] = <<>>
              THEN <<Line("empty_comment", "TABLE", DbTables[i])>>
              ELSE PagesOf(DbTables[i], db_rows[DbTables[i]]) \o <<Line("blank", "", "")>>)])
    \o << Line("commit", "", ""), Line("fk_on", "", "") >>

WithoutSeparator(f) ==
    SelectSeq(f, LAMBDA l : l.k \notin {"blank_lines", "rule", "data_section"})

\* C5 as stated: for the same database, the artifact of mode 'full' is, the
\* separator lines apart, the structure artifact of mode 'structure'
\* followed by the whole data artifact of mode 'data', header lines included.
C5_FullIsStructureThenData ==
    CleanRun =>
        /\ export_method = "structure" => files["structure"] = StructureArtifact
        /\ export_method = "data" => files["data"] = DataArtifact
        /\ export_method = "full" =>
              WithoutSeparator(files["structure"]) = StructureArtifact \o DataArtifact

\* C5, amended: the artifact of mode 'full' is the structure artifact of mode
\* 'structure', then the DATA SECTION separator, then the data artifact of
\* mode 'data' without its three header comment lines.
C5_FullIsStructureThenDataBody ==
    CleanRun =>
        /\ export_method = "structure" => files["structure"] = StructureArtifact
        /\ export_method = "data" => files["data"] = DataArtifact
        /\ export_method = "full" =>
              files["structure"] =
                  StructureArtifact \o Separator \o SubSeq(DataArtifact, 4, Len(DataArtifact))

\* A full export of a database whose table t1 holds three rows.
C5_Witness ==
    /\ CleanRun
    /\ export_method = "full"
    /\ Len(db_rows["t1"]) = 3
    /\ HasLine(files["structure"], "data_section")
    /\ HasLine(files["structure"], "commit")

\* cols are the non-generated columns of t in ordinal order: an increasing
\* choice of positions of SHOW COLUMNS that takes every column whose Extra
\* does not contain GENERATED and no other.
IsNonGeneratedProjection(cols, t) ==
    LET info == ShowColumns(t)
        keep == {i \in DOMAIN info : ~Contains(GENERATED, info[i].Extra)}
    IN  /\ Len(cols) = Cardinality(keep)
        /\ \E pos \in [DOMAIN cols -> keep] :
              /\ \A i, j \in DOMAIN cols : i < j => pos[i] < pos[j]
              /\ \A i \in DOMAIN cols : cols[i] = info[pos[i]].Field

\* Every row id a table can hold during a run.
RowIds == 1..(MaxRows + MaxEvents)

\* An INSERT whose column list is the non-generated columns of its table
\* and whose tuples each hold, in that order, the listed columns of one row.
WellFormedInsert(l) ==
    /\ IsNonGeneratedProjection(l.cols, l.name)
    /\ \A r \in DOMAIN l.rows :
          /\ Len(l.rows[r]) = Len(l.cols)
          /\ \E id \in RowIds : \A i \in DOMAIN l.cols :
                l.rows[r][i] = escape_value(Cell(l.name, id, l.cols[i]))

\* C6: the column list of every INSERT and the projection of every page
\* SELECT are the table's columns whose Extra does not contain GENERATED, in
\* ordinal order; every value tuple has as many entries as the column list
\* and its i-th value is the value of the i-th listed column of one row.
\* Files and the query log only grow, so every INSERT and every SELECT is
\* examined in the step that emits it.
C6_GeneratedColumnsExcluded ==
    [][/\ \A s \in Sections :
             /\ Len(files'[s]) >= Len(files[s])
             /\ SubSeq(files'[s], 1, Len(files[s])) = files[s]
             /\ \A n \in (Len(files[s]) + 1)..Len(files'[s]) :
                   files'[s][n].k = "insert" => WellFormedInsert(files'[s][n])
        /\ Len(queries') >= Len(queries)
        /\ SubSeq(queries', 1, Len(queries)) = queries
        /\ \A n \in (Len(queries) + 1)..Len(queries') :
              queries'[n].op = "select" =>
                  IsNonGeneratedProjection(queries'[n].cols, queries'[n].obj)]_vars

\* Both tables exported: t1 without full_name, t2 without total.
C6_Witness ==
    /\ pc = "done"
    /\ \E n \in DOMAIN DataFile :
          /\ DataFile[n].k = "insert" /\ DataFile[n].name = "t1"
          /\ DataFile[n].cols = <<"id", "name">>
          /\ Len(DataFile[n].rows) = 2
    /\ \E n \in DOMAIN DataFile :
          /\ DataFile[n].k = "insert" /\ DataFile[n].name = "t2"
          /\ DataFile[n].cols = <<"k", "payload">>

\* The tables whose SELECT COUNT(*) returned 0.
CountedEmpty == {queries[n].obj : n \in {m \in DOMAIN queries :
                     queries[m].op = "count" /\ queries[m].n = 0}}

Position(t) == CHOOSE i \in DOMAIN DbTables : DbTables[i] = t

\* C7: a table whose row count is 0 never produces an INSERT and never
\* causes a column-listing or page query; the data section holds exactly one
\* "table is empty" comment for it and the export goes on to the next table.
C7_EmptyTable ==
    \A t \in CountedEmpty :
        /\ InsertsFor(t) = <<>>
        /\ \A n \in DOMAIN queries :
              queries[n].obj = t => queries[n].op \notin {"show_columns", "select"}
        /\ Len(LinesFor(DataFile, "empty_comment", "TABLE", t)) = 1
        /\ pc \in {"data_table", "data_columns", "data_page"} => idx > Position(t)
        /\ (pc = "done" /\ failed = {}) =>
              \A u \in Range(DbTables) :
                  Len(LinesFor(DataFile, "data_comment", "TABLE", u)) = 1

\* t1 was empty and t2, the table after it, was exported.
C7_Witness ==
    /\ pc = "done"
    /\ "t1" \in CountedEmpty
    /\ Len(LinesFor(DataFile, "empty_comment", "TABLE", "t1")) = 1
    /\ InsertsFor("t2") /= <<>>

TailStages == {"views", "routines", "triggers"}

\* The failures of get_tables() in the structure or the data stage.
TableListingFailures ==
    {f \in failed : f.what = "list" /\ f.stage \in {"structure", "data"}}

\* C8 as stated: a failure of the table listing in the structure or data
\* stage is fatal: the run ends with a non-zero exit status, no later stage
\* (views, routines, triggers) runs, and the connection is closed.
C8_TableListingFatal ==
    \A f \in TableListingFailures :
        /\ pc \in {"finally", "done"}
        /\ raised = "SystemExit"
        /\ Range(stages) \cap TailStages = {}
        /\ created \cap TailStages = {}
        /\ pc = "done" => exit_status = 1 /\ connection = "closed" /\ close_calls = 1

\* C8, amended: a failure of the table listing is fatal: non-zero exit
\* status, no later stage, and the cleanup block runs; it closes the
\* connection once when the connection is still connected, and does not
\* close it when the listing failed because the connection was lost.
C8_TableListingFatalCleanup ==
    \A f \in TableListingFailures :
        /\ pc \in {"finally", "done"}
        /\ raised = "SystemExit"
        /\ Range(stages) \cap TailStages = {}
        /\ created \cap TailStages = {}
        /\ pc = "done" =>
              /\ exit_status = 1
              /\ stages[Len(stages)] = "disconnect"
              /\ connection /= "open"
              /\ f.how = "err" => connection = "closed" /\ close_calls = 1
              /\ f.how = "lost" => connection = "dead" /\ close_calls = 0

\* The table listing of the data stage of a full export failed with a
\* database error, every later stage was asked for, and the run has ended.
C8_Witness ==
    /\ pc = "done"
    /\ export_method = "full"
    /\ include_views /\ include_routines /\ include_triggers
    /\ failed = {Failure("data", "list", "", "err")}
    /\ exit_status = 1
    /\ connection = "closed"

\* The failures of the listings of views, procedures, functions, triggers.
OptionalListingFailures ==
    {f \in failed : /\ f.stage \in TailStages
                    /\ f.what \in {"list", "list_procedures", "list_functions"}}

\* The failures a stage catches itself: the listings above and the fetch of
\* one view, routine or trigger.
CaughtFailures ==
    OptionalListingFailures \cup {f \in failed : f.stage \in TailStages /\ f.what = "fetch"}

StageFileOpened(stage) ==
    stage \in created \/ Failure(stage, "open", "", "oserror") \in failed

QueryIndexes(op) == {n \in DOMAIN queries : queries[n].op = op}

\* C9: a failure of the listing of views, procedures, functions or triggers
\* is not fatal: the kind is taken as empty, the artifact of the stage is
\* still written, the later stages run and the exit status is not a failure
\* because of it; after a failed listing of procedures the functions are
\* still listed and exported.
C9_OptionalListingNonFatal ==
    /\ \A f \in OptionalListingFailures :
          /\ f.what = "list" /\ f.stage = "views" =>
                views = <<>> /\ LinesOf(files["views"], "create", "VIEW") = <<>>
          /\ f.what = "list" /\ f.stage = "triggers" =>
                triggers = <<>> /\ LinesOf(files["triggers"], "create", "TRIGGER") = <<>>
          /\ f.what = "list_procedures" =>
                /\ procedures = <<>>
                /\ LinesOf(files["routines"], "drop", "PROCEDURE") = <<>>
                /\ LinesOf(files["routines"], "create", "PROCEDURE") = <<>>
                /\ pc /= "routines_functions" => QueryIndexes("list_functions") /= {}
                /\ (pc = "done" /\ failed = {f} /\ f.how = "err") =>
                      \A i \in DOMAIN DbFunctions :
                          HasDropAndCreate(files["routines"], "FUNCTION", DbFunctions[i])
          /\ f.what = "list_functions" =>
                /\ functions = <<>>
                /\ LinesOf(files["routines"], "drop", "FUNCTION") = <<>>
                /\ LinesOf(files["routines"], "create", "FUNCTION") = <<>>
          /\ pc /= "routines_functions" => StageFileOpened(f.stage)
          /\ f.stage \in created => HasLine(files[f.stage], "title")
    /\ (pc = "done" /\ failed \subseteq CaughtFailures) =>
          /\ exit_status = 0
          /\ stages = ExpectedStages

\* The listing of procedures failed; the function, and the triggers after
\* the routines, were exported and the run ended without a failure status.
C9_Witness ==
    /\ pc = "done"
    /\ failed = {Failure("routines", "list_procedures", "", "err")}
    /\ exit_status = 0
    /\ HasDropAndCreate(files["routines"], "FUNCTION", "f1")
    /\ HasDropAndCreate(files["triggers"], "TRIGGER", "g1")

DataStatements == {"start_transaction", "data_comment", "empty_comment", "insert", "commit"}

\* C10: the mode alone selects the structure and data stages.  'structure'
\* runs only the structure stage and writes no INSERT anywhere; 'data' runs
\* only the data stage and creates no structure artifact; 'full' runs both,
\* writes every data statement into the structure artifact after the DATA
\* SECTION separator, and no data artifact exists.
C10_ModeSelectsStages ==
    /\ export_method = "structure" =>
          /\ "data" \notin Range(stages)
          /\ \A s \in Sections : LinesOf(files[s], "insert", "TABLE") = <<>>
          /\ "data" \notin created
          /\ QueryIndexes("count") \cup QueryIndexes("select") = {}
    /\ export_method = "data" =>
          /\ "structure" \notin Range(stages)
          /\ "structure" \notin created
          /\ files["structure"] = <<>>
          /\ QueryIndexes("show_create_table") = {}
    /\ export_method = "full" =>
          /\ "data" \notin created
          /\ files["data"] = <<>>
          /\ \A n \in DOMAIN files["structure"] :
                files["structure"][n].k \in DataStatements =>
                    \E m \in 1..(n - 1) : files["structure"][m].k = "data_section"
    /\ (pc = "done" /\ raised = "none") =>
          /\ "structure" \in Range(stages) <=> export_method \in {"structure", "full"}
          /\ "data" \in Range(stages) <=> export_method \in {"data", "full"}
          /\ "structure" \in created <=> export_method \in {"structure", "full"}
          /\ "data" \in created <=> export_method = "data"

\* A full export that ended well with rows of both tables in the structure
\* artifact.
C10_Witness ==
    /\ pc = "done" /\ raised = "none"
    /\ export_method = "full"
    /\ created \cap {"structure", "data"} = {"structure"}
    /\ InsertsFor("t1") /= <<>> /\ InsertsFor("t2") /= <<>>
    /\ HasLine(files["structure"], "data_section")

IsPrefix(a, b) == Len(a) <= Len(b) /\ SubSeq(b, 1, Len(a)) = a

\* The stages of a run before the cleanup.
StageBody == SubSeq(ExpectedStages, 1, Len(ExpectedStages) - 1)

\* The stage a position of the program lies inside, "" at a stage boundary.
StageInProgress ==
    CASE pc = "structure_table" -> "structure"
      [] pc \in {"data_table", "data_columns", "data_page"} -> "data"
      [] pc = "views_view" -> "views"
      [] pc \in {"routines_functions", "routines_procedure", "routines_function",
                 "routines_end"} -> "routines"
      [] pc = "triggers_trigger" -> "triggers"
      [] pc = "done" -> "disconnect"
      [] OTHER -> ""

\* The stage about to start at a stage boundary.
StageAhead == IF pc = "finally" THEN "disconnect" ELSE pc

\* C11: the stages run in the fixed order Connect, Structure (if selected),
\* Data (if selected), Views, Routines, Triggers (each if included),
\* Disconnect: the stages started so far are an initial part of that order,
\* possibly cut short by the cleanup; a stage starts only when the one before
\* it has ended; none runs twice, none before the connection is established
\* and none after it is closed.
C11_StageOrder ==
    /\ \/ IsPrefix(stages, StageBody)
       \/ \E k \in 1..Len(StageBody) :
             stages = SubSeq(StageBody, 1, k) \o <<"disconnect">>
    /\ \A i, j \in DOMAIN stages : i < j => stages[i] /= stages[j]
    /\ StageInProgress /= "" => stages[Len(stages)] = StageInProgress
    /\ StageInProgress = "" =>
          /\ StageAhead \notin Range(stages)
          /\ pc \in {"main", "rejected"} => stages = <<>>
          /\ pc \notin {"main", "rejected", "connect"} =>
                stages /= <<>> /\ stages[1] = "connect"
    /\ (Range(stages) \ {"connect", "disconnect"} /= {} \/ queries /= <<>>) =>
          \A f \in failed : f.stage /= "connect"
    /\ connection = "none" => queries = <<>> /\ Range(stages) \subseteq {"connect", "disconnect"}
    /\ connection = "closed" => pc = "done" /\ stages[Len(stages)] = "disconnect"
    /\ ("data" \in Range(stages) /\ export_method = "full") =>
          HasLine(files["structure"], "fk_on")
    /\ (Range(stages) \cap TailStages /= {} /\ "data" \in Range(stages)) =>
          HasLine(DataFile, "commit")

\* A full export with views, routines and triggers that ran all seven stages.
C11_Witness ==
    /\ pc = "done"
    /\ stages = <<"connect", "structure", "data", "views", "routines", "triggers",
                  "disconnect">>
    /\ connection = "closed"

IncludeFlag(stage) ==
    CASE stage = "views" -> include_views
      [] stage = "routines" -> include_routines
      [] OTHER -> include_triggers

TailOrder == <<"views", "routines", "triggers">>

\* The listings of the stage all came back empty (here: all failed).
ListedNone(stage) ==
    CASE stage = "routines" ->
            /\ \E f \in failed : f.stage = stage /\ f.what = "list_procedures"
            /\ \E f \in failed : f.stage = stage /\ f.what = "list_functions"
      [] OTHER -> \E f \in failed : f.stage = stage /\ f.what = "list"

\* The stage has got past its listings and its open().
StageBegun(stage) == stage \in Range(stages) /\ ~(stage = "routines" /\ pc = "routines_functions")

ObjectStatements(f) ==
    SelectSeq(f, LAMBDA l : l.k \in {"drop", "create", "delimiter_open", "delimiter_reset"})

\* C12: in every mode each of the views, routines and triggers stages runs
\* if and only if its own flag is set, whatever the other two flags; a stage
\* that runs creates its artifact (unless open() itself raises), and when
\* nothing was listed the artifact holds one "none found" comment and no
\* DROP or CREATE.
C12_TailStagesGatedByFlags ==
    /\ \A i \in DOMAIN TailOrder :
          LET stage == TailOrder[i] IN
          /\ stage \in Range(stages) => IncludeFlag(stage)
          /\ (IncludeFlag(stage) /\ raised = "none" /\
                (pc = "done" \/ \E j \in (i + 1)..Len(TailOrder) :
                                   TailOrder[j] \in Range(stages) \/ pc = TailOrder[j])) =>
                stage \in Range(stages)
          /\ (StageBegun(stage) /\ Failure(stage, "open", "", "oserror") \notin failed) =>
                /\ stage \in created
                /\ HasLine(files[stage], "title")
          /\ stage \notin Range(stages) => stage \notin created /\ files[stage] = <<>>
          /\ (stage \in created /\ ListedNone(stage)) =>
                /\ Len(SelectSeq(files[stage], LAMBDA l : l.k = "none_found")) = 1
                /\ ObjectStatements(files[stage]) = <<>>
          /\ (stage \in created /\ ~ListedNone(stage)) =>
                ~HasLine(files[stage], "none_found")

\* A data-only export with routines alone included, whose two listings both
\* came back empty: the routines artifact exists with its "none found" line.
C12_Witness ==
    /\ pc = "done"
    /\ export_method = "data"
    /\ ~include_views /\ include_routines /\ ~include_triggers
    /\ stages = <<"connect", "data", "routines", "disconnect">>
    /\ ListedNone("routines")
    /\ "routines" \in created
    /\ HasLine(files["routines"], "none_found")
    /\ exit_status = 0

ConnectFailed == \E f \in failed : f.stage = "connect"

\* C13: when connect fails the run aborts with a failure exit status before
\* any stage: no catalog query is issued and no artifact of any section is
\* created.
C13_ConnectFailureAborts ==
    ConnectFailed =>
        /\ pc \in {"finally", "done"}
        /\ raised = "SystemExit"
        /\ queries = <<>>
        /\ created = {}
        /\ \A s \in Sections : files[s] = <<>>
        /\ Range(stages) \subseteq {"connect", "disconnect"}
        /\ pc = "done" => exit_status = 1

\* A full export with every tail stage asked for, ended by a refused connect.
C13_Witness ==
    /\ pc = "done"
    /\ export_method = "full"
    /\ include_views /\ include_routines /\ include_triggers
    /\ failed = {Failure("connect", "connect", "", "err")}
    /\ stages = <<"connect", "disconnect">>
    /\ exit_status = 1

\* C14: with a batch size below 1 the program ends with a failure exit status
\* before any connection is opened and before any stage runs; no connection
\* is opened and no page is read with batch_size < 1.
C14_BatchSizeValidated ==
    /\ batch_size < 1 =>
          /\ pc \in {"main", "rejected"}
          /\ connection = "none"
          /\ stages = <<>>
          /\ queries = <<>>
          /\ created = {}
          /\ pc = "rejected" => exit_status = 1
    /\ pc \notin {"main", "rejected"} => batch_size >= 1
    /\ \A n \in DOMAIN queries : queries[n].op = "select" => queries[n].limit >= 1

\* Batch size 0 was given and the program has ended.
C14_Witness ==
    /\ pc = "rejected"
    /\ batch_size = 0
    /\ exit_status = 1
    /\ connection = "none"

\* The positions of the writes k in a sequence of lines.
Positions(f, k) == {n \in DOMAIN f : f[n].k = k}

\* The data section: the stand-alone data file, or what follows the DATA
\* SECTION separator in the artifact of a full export.
DataSectionLines ==
    IF export_method /= "full" THEN files["data"]
    ELSE IF Positions(files["structure"], "data_section") = {} THEN <<>>
    ELSE LET at == CHOOSE n \in Positions(files["structure"], "data_section") : TRUE
         IN  SubSeq(files["structure"], at + 1, Len(files["structure"]))

\* The data stage ran to its end.
DataFinished ==
    /\ "data" \in Range(stages)
    /\ StageInProgress /= "data"
    /\ \A f \in failed : f.stage /= "data"

\* C15: in a data section the data stage has finished, SET
\* FOREIGN_KEY_CHECKS=0 and START TRANSACTION appear exactly once, before
\* the first INSERT of any table, and COMMIT and SET FOREIGN_KEY_CHECKS=1
\* appear exactly once, after the last INSERT and at the very end; no table
\* is wrapped on its own.
C15_WrappedOnce ==
    LET d == DataSectionLines IN
    /\ Cardinality(Positions(d, "data_section")) = 0
    /\ DataFinished =>
          /\ \A k \in {"fk_off", "start_transaction", "commit", "fk_on"} :
                Cardinality(Positions(d, k)) = 1
          /\ \A a \in Positions(d, "fk_off"), b \in Positions(d, "start_transaction"),
                c \in Positions(d, "commit"), e \in Positions(d, "fk_on") :
                /\ a < b /\ b < c /\ e = c + 1 /\ e = Len(d)
                /\ \A n \in Positions(d, "insert") \cup Positions(d, "data_comment")
                              \cup Positions(d, "empty_comment") : b < n /\ n < c
    /\ ~DataFinished => Positions(d, "commit") = {}

\* A finished data section with INSERTs of both tables inside one wrapping.
C15_Witness ==
    /\ DataFinished
    /\ export_method = "full"
    /\ InsertsFor("t1") /= <<>> /\ InsertsFor("t2") /= <<>>
    /\ Cardinality(Positions(DataSectionLines, "commit")) = 1
    /\ Cardinality(Positions(DataSectionLines, "insert")) >= 2

\* What the two characters "\" c of a literal stand for.
Unescaped(c) ==
    CASE c = "n" -> "\n"
      [] c = "r" -> "\r"
      [] c = "t" -> "\t"
      [] OTHER -> c

\* The escape sequences of a literal's body substituted back, in one pass
\* from the left: each backslash is read together with the character after it.
RECURSIVE Unescape(_)
Unescape(t) ==
    IF t = <<>> THEN <<>>
    ELSE IF Head(t) = "\\" /\ Len(t) >= 2
         THEN <<Unescaped(t[2])>> \o Unescape(SubSeq(t, 3, Len(t)))
         ELSE <<Head(t)>> \o Unescape(Tail(t))

\* A literal without its first and last character.
Body(literal) == SubSeq(literal, 2, Len(literal) - 1)

\* C16: for every string over backslash, the two quotes, newline, carriage
\* return, tab and letters (n, r, t among them), the literal escape_value
\* returns is wrapped in single quotes, and substituting its escape
\* sequences back (in one left-to-right pass) gives the string again; a
\* backslash followed by the letter n stays a backslash and an n.
C16_EscapeRoundTrip ==
    (pc = "returned" /\ value.tag = "text") =>
        /\ Len(encoded) >= 2
        /\ encoded[1] = "'" /\ encoded[Len(encoded)] = "'"
        /\ Unescape(Body(encoded)) = value.s
        /\ value.s = <<"\\", "n">> => encoded = <<"'", "\\", "\\", "n", "'">>

\* The string backslash, n was escaped and reads back as backslash, n.
C16_Witness ==
    /\ pc = "returned"
    /\ value = TextValue(<<"\\", "n">>)
    /\ Unescape(Body(encoded)) = <<"\\", "n">>
    /\ "\n" \notin Range(Unescape(Body(encoded)))

DecChars == <<"0", "1", "2", "3", "4", "5", "6", "7", "8", "9">>

LowerHexChars == DecChars \o <<"a", "b", "c", "d", "e", "f">>

CharValue(c, chars) == (CHOOSE i \in DOMAIN chars : chars[i] = c) - 1

\* The natural number a string of decimal digits denotes.
RECURSIVE ParseNat(_)
ParseNat(t) ==
    IF t = <<>> THEN 0
    ELSE 10 * ParseNat(SubSeq(t, 1, Len(t) - 1)) + CharValue(t[Len(t)], DecChars)

\* t is the decimal text of the integer n: an optional minus sign, then
\* digits without a leading zero.
IsDecimalTextOf(t, n) ==
    LET digits == IF t /= <<>> /\ t[1] = "-" THEN Tail(t) ELSE t IN
    /\ digits /= <<>>
    /\ Range(digits) \subseteq Range(DecChars)
    /\ Len(digits) > 1 => digits[1] /= "0"
    /\ (t[1] = "-") <=> (n < 0)
    /\ ParseNat(digits) = (IF n < 0 THEN 0 - n ELSE n)

\* t is 0x followed by two lowercase hexadecimal digits for each byte of b.
IsHexLiteralOf(t, b) ==
    /\ Len(t) = 2 + 2 * Len(b)
    /\ t[1] = "0" /\ t[2] = "x"
    /\ \A i \in 3..Len(t) : t[i] \in Range(LowerHexChars)
    /\ \A j \in DOMAIN b :
          16 * CharValue(t[2 * j + 1], LowerHexChars)
             + CharValue(t[2 * j + 2], LowerHexChars) = b[j]

\* C17: escape_value returns for every kind of value: NULL unquoted for a
\* null, the unquoted decimal text for an integer, 0x and exactly 2k
\* lowercase hexadecimal digits for k bytes (k >= 0), without quotes or
\* separators; only the remaining kinds are quoted.
C17_EscapeTotal ==
    /\ pc = "escape_value" => Len(escape_value(value)) >= 1
    /\ pc = "returned" =>
          /\ value.tag = "null" => encoded = <<"N", "U", "L", "L">>
          /\ value.tag = "int" => IsDecimalTextOf(encoded, value.n)
          /\ value.tag = "bytes" => IsHexLiteralOf(encoded, value.b)
          /\ value.tag = "text" <=> (encoded /= <<>> /\ encoded[1] = "'")
          /\ value.tag /= "text" => "'" \notin Range(encoded) /\ "\"" \notin Range(encoded)

\* The bytes DE AD came back as 0xdead.
C17_Witness ==
    /\ pc = "returned"
    /\ value = BytesValue(<<222, 173>>)
    /\ encoded = <<"0", "x", "d", "e", "a", "d">>

\* The sender went as far as sending (with or without success).
SendTried == sent /= "not_tried"

\* C18: given a list of paths of which at least one exists, the missing
\* paths are warned about and skipped, and the run goes on to send: with the
\* files unchanged during the run, the attachments are the existing entries
\* of the list, each once, in the order given. The run ends before sending
\* only when none of the paths exists.
C18_MissingFilesSkipped ==
    /\ (pc = "mail_attach" /\ fs_changes = 0) =>
          attached = SubSeq(SelectSeq(backup_files, Exists), 1, attach_idx - 1)
    /\ (pc = "mail_exit" /\ SendTried /\ fs_changes = 0) =>
          /\ attached = SelectSeq(backup_files, Exists)
          /\ warnings = SelectSeq(backup_files, LAMBDA p : ~Exists(p))
    /\ (pc = "mail_exit" /\ ~SendTried) =>
          /\ exit_status = 1
          /\ \A p \in Range(backup_files) : ~Exists(p)
          /\ attached = <<>>
    /\ (pc = "mail_exit" /\ \E p \in Range(backup_files) : Exists(p)) => SendTried
    /\ \A p \in Range(attached) : p \in Range(backup_files)
    /\ Len(attached) + Len(warnings) <= 2 * Len(backup_files)

\* Of three paths the middle one is missing: the other two were attached in
\* order, the missing one was warned about, and the mail was sent.
C18_Witness ==
    /\ pc = "mail_exit"
    /\ args_files = <<"b.sql", "a.sql", "c.sql">>
    /\ fs = {"b.sql", "c.sql"} /\ fs_changes = 0
    /\ attached = <<"b.sql", "c.sql">>
    /\ warnings = <<"a.sql">>
    /\ sent = "ok" /\ exit_status = 0

\* C19: in the routines and triggers artifacts every DELIMITER $$ line is
\* followed by a DELIMITER ; line before the DROP of the next object and
\* before the end of the file, also when the create statement's fetch failed.
C19_DelimiterAlwaysReset ==
    \A s \in {"routines", "triggers"} :
        \A n \in Positions(files[s], "delimiter_open") :
            \E m \in (n + 1)..Len(files[s]) :
                /\ files[s][m].k = "delimiter_reset"
                /\ \A j \in (n + 1)..(m - 1) : files[s][j].k /= "drop"

\* C20: in every artifact each DROP is followed by the create statement of
\* the same object before any line of another object, and an object whose
\* create statement could not be fetched (an error or an empty result)
\* leaves no DROP.
C20_DropOnlyWithCreate ==
    \A s \in Sections :
        \A n \in Positions(files[s], "drop") :
            \E m \in (n + 1)..Len(files[s]) :
                /\ files[s][m].k = "create"
                /\ files[s][m].kind = files[s][n].kind
                /\ files[s][m].name = files[s][n].name
                /\ \A j \in (n + 1)..(m - 1) : files[s][j].name = files[s][n].name

\* The structure file a merge must leave: what it held, one separator, one
\* copy of the data file.
MergedContent == merge_input.structure \o Separator \o merge_input.data

\* C21: merge_full_export leaves the structure file equal to its original
\* content, then exactly one DATA SECTION separator, then exactly one copy of
\* the data file, on the shell path, on the streaming path and on the path
\* where the shell command fails and the streaming fallback runs; afterwards
\* the temporary data file no longer exists.
C21_MergeEquivalent ==
    pc = "merged" =>
        /\ files["structure"] = MergedContent
        /\ Len(LinesOf(files["structure"], "data_section", "")) = 1
        /\ "data" \notin created

\* The page queries sent for table t, in the order sent.
PageQueries(t) == SelectSeq(queries, LAMBDA q : q.op = "select" /\ q.obj = t)

\* The row count read at the start of table t: 0 when it was not read.
CountRead(t) ==
    LET counts == SelectSeq(queries, LAMBDA q : q.op = "count" /\ q.obj = t)
    IN  IF counts = <<>> \/ counts[1].n < 0 THEN 0 ELSE counts[1].n

\* What C22 says of the page queries sent so far and of a finished loop.
PageQueriesExact ==
    \A i \in DOMAIN DbTables :
        LET t == DbTables[i]
            N == CountRead(t)
            pq == PageQueries(t)
        IN  /\ pq /= <<>> => batch_size >= 1
            /\ \A k \in DOMAIN pq :
                  /\ pq[k].offset = (k - 1) * batch_size
                  /\ pq[k].offset < N
                  /\ pq[k].limit = batch_size
            /\ (t \in DoneTables /\ N >= 1) => Len(pq) = CeilDiv(N, batch_size)

\* C22: for every row count N >= 1 read at the start of a table and every
\* batch size B >= 1, the pagination loop terminates after exactly ceil(N/B)
\* page queries, with offsets 0, B, 2B, ... (all < N) in increasing order and
\* each with LIMIT B, whatever the pages return, also when a page comes back
\* empty or short because rows were deleted after the count was read.
C22_PageLoopTerminates ==
    /\ []PageQueriesExact
    /\ (pc = "data_page") ~> (pc /= "data_page")

\* Table t1 was counted at 3 rows, lost one during its loop, and the loop
\* still ended after the two page queries of batch size 2.
C22_Witness ==
    /\ "t1" \in DoneTables
    /\ CountRead("t1") = 3
    /\ Len(db_rows["t1"]) = 2
    /\ batch_size = 2
    /\ Len(PageQueries("t1")) = 2

\* Every INSERT line of every file.
AllInserts ==
    UNION {{files[s][n] : n \in {m \in DOMAIN files[s] : files[s][m].k = "insert"}} :
              s \in Sections}

\* C23: every emitted INSERT statement holds at least 1 and at most
\* batch_size value tuples, in every reachable state, also when the rows of
\* the table change between the row count and the page fetches; a page that
\* returns no rows emits no INSERT, so a table never has more INSERTs than
\* page queries.
C23_InsertSizeBounded ==
    /\ \A l \in AllInserts :
          /\ Len(l.rows) >= 1
          /\ Len(l.rows) <= batch_size
    /\ \A i \in DOMAIN DbTables :
          Len(InsertsFor(DbTables[i])) <= Len(PageQueries(DbTables[i]))

\* Table t1 was counted at 3 rows and lost one during its loop of batch
\* size 1: the third page came back empty and only two INSERTs were written.
C23_Witness ==
    /\ "t1" \in DoneTables
    /\ CountRead("t1") = 3
    /\ batch_size = 1
    /\ db_changes = 1
    /\ Len(PageQueries("t1")) = 3
    /\ Len(InsertsFor("t1")) = 2

\* How many backslashes stand in a row immediately before position i of s.
RECURSIVE BackslashRun(_, _)
BackslashRun(s, i) ==
    IF i <= 1 \/ s[i - 1] /= "\\" THEN 0 ELSE 1 + BackslashRun(s, i - 1)

\* How often the characters of set C occur in s.
Occurrences(s, C) == Cardinality({i \in DOMAIN s : s[i] \in C})

\* The characters escape_value puts a backslash in front of, or replaces by
\* a backslash and a letter, after it has doubled the backslashes.
LaterSubstituted == {"'", "\"", "\n", "\r", "\t"}

\* C24: for every text value the literal escape_value returns starts and
\* ends with a single quote; between those two quotes every single quote is
\* preceded by an odd number of consecutive backslashes and the body does not
\* end in an odd run of backslashes, so no input can end the literal early;
\* each input backslash yields exactly two output backslashes and the
\* backslashes the later substitutions introduce are not escaped again: one
\* for each substituted character.
C24_LiteralNotTerminatedEarly ==
    (pc = "returned" /\ value.tag = "text") =>
        LET body == Body(encoded)
        IN  /\ Len(encoded) >= 2
            /\ Head(encoded) = "'"
            /\ encoded[Len(encoded)] = "'"
            /\ \A i \in DOMAIN body :
                  body[i] = "'" => BackslashRun(body, i) % 2 = 1
            /\ BackslashRun(body, Len(body) + 1) % 2 = 0
            /\ Occurrences(body, {"\\"}) =
                  2 * Occurrences(value.s, {"\\"})
                  + Occurrences(value.s, LaterSubstituted)

\* A backslash followed by a single quote: the quote ends up behind three
\* backslashes.
C24_Witness ==
    /\ pc = "returned"
    /\ value = TextValue(<<"\\", "'">>)
    /\ encoded = <<"'", "\\", "\\", "\\", "'", "'">>

====
